---------------------------- MODULE Spec2Model ----------------------------
(***************************************************************************)
(* Credential lifecycle of the GoHighLevel integration: the credential     *)
(* store (ghl_integration/models.py), the token refresh engine and health  *)
(* monitor (ghl_integration/services.py), the request-time guard           *)
(* (ghl_integration/middleware.py) and the token views                     *)
(* (ghl_integration/views.py).                                             *)
(*                                                                         *)
(* Request handlers and cron jobs run on concurrent workers.  A handler    *)
(* is atomic between the points where it blocks: it loads the record from  *)
(* the store and posts the token-exchange request in one step, and it      *)
(* handles the provider's answer (and saves) in a later step.  Other       *)
(* workers run in between.                                                 *)
(*                                                                         *)
(* The account lifecycle (webhook_handler, process_webhook, oauth_callback *)
(* and manage_whatsapp_token of views.py) works on the tables as sets of   *)
(* rows; a handler is a sequence of database statements, each one a step,  *)
(* and statements of other requests run in between.  Lifecycle runs the    *)
(* requests concurrently, Scenario one after the other.                    *)
(*                                                                         *)
(* Monitoring runs the health monitor's reads, Repair the cron sweep again *)
(* and again under fairness, Rotation concurrent refreshes with the        *)
(* provider's answer and the save as separate steps, and GuardEntry the    *)
(* guard on calls of every kind.                                           *)
(*                                                                         *)
(* Time is counted in ticks, TicksPerHour ticks to the hour.  Tokens are   *)
(* opaque strings in the code and numbers here; EmptyToken is ''.          *)
(***************************************************************************)
EXTENDS Integers, Sequences, FiniteSets, TLC

\* Bounds of the model.
MaxTime == 1
MaxExchanges == 2
TicksPerHour == 2

\* '' : the empty token string of a placeholder record.
EmptyToken == 0

TenantSeq == <<"A", "B">>
Tenants == {TenantSeq[i] : i \in 1..Len(TenantSeq)}
WorkerSeq == <<"w1", "w2">>
Workers == {WorkerSeq[i] : i \in 1..Len(WorkerSeq)}

\* timezone.timedelta(hours=1)
RefreshWindow == TicksPerHour
\* token_data.get('expires_in', 3600): 3600 seconds
DefaultExpiresIn == TicksPerHour

VARIABLES
    db,      \* the ghl_integration table: tenant id -> stored record
    now,     \* timezone.now()
    issued,  \* number of token pairs the provider has issued so far
    proc,    \* per worker: the call it is executing
    ghl_integration,     \* the ghl_integration table as a set of rows (Lifecycle)
    ghl_webhook,         \* the ghl_webhook table (Lifecycle)
    whatsapp_tokens,  \* ids of the ghl_integration that have a WhatsAppAccessToken
    requests          \* the HTTP requests, in order of arrival (Lifecycle)

\* The tables and requests of the account lifecycle (ghl_webhook, OAuth callback);
\* the token refresh specification Spec leaves them alone.
lifecycle_vars == <<ghl_integration, ghl_webhook, whatsapp_tokens, requests>>

vars == <<db, now, issued, proc, lifecycle_vars>>

-----------------------------------------------------------------------------
(* The credential record and its derived properties *)

\* The token the installation of tenant t was given before the model starts.
InitialToken(t) == CHOOSE i \in 1..Len(TenantSeq) : TenantSeq[i] = t

\* The n-th token pair the provider issues during the run.
ProviderToken(n) == Len(TenantSeq) + n

is_token_expired(obj, clock) == clock >= obj.expires_at

needs_refresh_strict(obj, clock) == (obj.expires_at - clock) < RefreshWindow

needs_refresh(obj, clock) == (obj.expires_at - clock) <= RefreshWindow

\* Model.save(): an UPDATE of every column of the row from the in-memory object.
save_tokens_only(store, obj) ==
    [store EXCEPT ![obj.id] = [@ EXCEPT !.access_token = obj.access_token,
                                        !.expires_at = obj.expires_at]]

save(store, obj) == [store EXCEPT ![obj.id] = obj]

NoObj == [id |-> "none", is_active |-> FALSE, access_token |-> EmptyToken,
          refresh_token |-> EmptyToken, expires_at |-> 0, last_used_at |-> 0]

\* last_used_at = DateTimeField(auto_now=True): Model.save() sets the field
\* of the object to the current time before it writes the row.
auto_now(obj, clock) == [obj EXCEPT !.last_used_at = clock]

TokenState(obj) == <<obj.access_token, obj.refresh_token, obj.expires_at>>

-----------------------------------------------------------------------------
(* The provider's token endpoint *)

\* expires_in values the provider answers with, in ticks.
ExpiresInChoices == {2 * TicksPerHour}

\* The answers to one token-exchange request when n pairs were issued before:
\* "error" is a transport error, a non-2xx status or a body that is no JSON
\* object with an access_token (nothing was assigned when the exception is
\* raised); "bad_expires_in" is a body whose expires_in is no number; "ok" is
\* a usable body, with or without refresh_token and expires_in.
Outcomes(n) ==
    {[kind |-> k, access_token |-> EmptyToken, has_refresh_token |-> FALSE,
      refresh_token |-> EmptyToken, has_expires_in |-> FALSE, expires_in |-> 0]
        : k \in {"error"}}
    \cup
    {[kind |-> "bad_expires_in", access_token |-> ProviderToken(n + 1),
      has_refresh_token |-> TRUE, refresh_token |-> ProviderToken(n + 1),
      has_expires_in |-> TRUE, expires_in |-> 0]}
    \cup
    {[kind |-> "ok", access_token |-> ProviderToken(n + 1),
      has_refresh_token |-> h, refresh_token |-> IF h THEN ProviderToken(n + 1) ELSE EmptyToken,
      has_expires_in |-> e # 0, expires_in |-> e]
        : h \in BOOLEAN, e \in ExpiresInChoices \cup {0}}

Issues(out) == out.kind \in {"ok", "bad_expires_in"}

OutcomeKinds == {"error", "bad_expires_in", "ok"}

-----------------------------------------------------------------------------
(* TokenRefreshService.refresh_single_token *)

\* if not integration.refresh_token: return False
has_refresh_token(obj) == obj.refresh_token # EmptyToken

\* The assignments from token_data to the in-memory object.
ApplyTokenData_without_fallback(obj, td, clock) ==
    [obj EXCEPT !.access_token = td.access_token,
                !.refresh_token = td.refresh_token,
                !.expires_at = clock + (IF td.has_expires_in THEN td.expires_in
                                                             ELSE DefaultExpiresIn)]

ApplyTokenData(obj, td, clock) ==
    [obj EXCEPT !.access_token = td.access_token,
                !.refresh_token = IF td.has_refresh_token THEN td.refresh_token ELSE @,
                !.expires_at = clock + (IF td.has_expires_in THEN td.expires_in
                                                             ELSE DefaultExpiresIn)]

\* The assignments made before timedelta(seconds=...) raises on an expires_in
\* that is no number: the in-memory object is half updated and never saved.
ApplyUntilExpiresIn(obj, td) ==
    [obj EXCEPT !.access_token = td.access_token,
                !.refresh_token = IF td.has_refresh_token THEN td.refresh_token ELSE @]

\* The part of refresh_single_token after the request was posted: what it
\* returns, the in-memory object it leaves, and whether it saved that object.
refresh_single_token_saves_on_error(obj, td, clock) ==
    IF td.kind = "ok"
    THEN [success |-> TRUE, obj |-> ApplyTokenData(obj, td, clock), saved |-> TRUE]
    ELSE IF td.kind = "bad_expires_in"
    THEN [success |-> FALSE, obj |-> ApplyUntilExpiresIn(obj, td), saved |-> TRUE]
    ELSE [success |-> FALSE, obj |-> obj, saved |-> FALSE]

refresh_single_token(obj, td, clock) ==
    IF td.kind = "ok"
    THEN [success |-> TRUE, obj |-> ApplyTokenData(obj, td, clock), saved |-> TRUE]
    ELSE IF td.kind = "bad_expires_in"
    THEN [success |-> FALSE, obj |-> ApplyUntilExpiresIn(obj, td), saved |-> FALSE]
    ELSE [success |-> FALSE, obj |-> obj, saved |-> FALSE]

-----------------------------------------------------------------------------
(* Workers *)

\* A call in progress.  pc, op, obj (the in-memory integration object), queue,
\* refreshed_count and failed_count are the call's own state; status, token
\* and was_refreshed are what it returns.  The other fields record its
\* history: the record as loaded and the time left on it at load, the number
\* of requests posted, the provider's last answer, the rows the call changed
\* in the store, and for a sweep the table at its start, its start time and
\* the records it came to, each with the time and what became of it
\* ("skipped", "no_refresh_token", "pending", or the provider's answer);
\* report is what a call of the health monitor found.
NoReport == [health |-> [total_integrations |-> 0, expired_tokens |-> 0,
                         needs_refresh |-> 0, healthy_tokens |-> 0,
                         health_percentage |-> 0],
             expiring_soon |-> <<>>, severely_expired |-> {}, unused |-> {}]

Idle == [pc |-> "idle", op |-> "none", obj |-> NoObj,
         queue |-> <<>>, refreshed_count |-> 0, failed_count |-> 0,
         status |-> "none", token |-> EmptyToken, was_refreshed |-> FALSE,
         loaded |-> NoObj, remaining |-> 0, exchanges |-> 0, answer |-> "none",
         touched |-> {},
         snap |-> <<>>, started |-> 0, visited |-> <<>>,
         report |-> NoReport]

\* Each worker serves one call.
Free(w) == proc[w].pc = "idle"

\* An incoming call is handed to the first free worker.
Dispatched(w) ==
    \E i \in 1..Len(WorkerSeq) :
        /\ WorkerSeq[i] = w
        /\ Free(w)
        /\ \A j \in 1..(i - 1) : ~Free(WorkerSeq[j])

\* The call posts its token-exchange request and blocks on the answer.
Posting(p) == [p EXCEPT !.pc = "exchange", !.exchanges = @ + 1]

\* The call returns to its caller.
Returning(p, status, token, refreshed) ==
    [p EXCEPT !.pc = "done", !.status = status, !.token = token,
              !.was_refreshed = refreshed]

\* objects.get(id=...): the call holds a copy of the stored record.
Loaded(op, obj, clock) ==
    [Idle EXCEPT !.op = op, !.obj = obj, !.loaded = obj,
                 !.remaining = obj.expires_at - clock]

-----------------------------------------------------------------------------
(* TokenRefreshService.get_valid_token and the get-token view *)

get_valid_token_no_gate(obj, clock) ==
    IF needs_refresh(obj, clock) THEN "refresh"
    ELSE IF is_token_expired(obj, clock) THEN "refresh_expired"
    ELSE "valid"

\* The branch get_valid_token takes on the record it was handed.
get_valid_token_branch(obj, clock) ==
    IF ~obj.is_active THEN "inactive"
    ELSE IF needs_refresh(obj, clock) THEN "refresh"
    ELSE IF is_token_expired(obj, clock) THEN "refresh_expired"
    ELSE "valid"

\* get_valid_token up to the point where it returns, raises or blocks.
get_valid_token_begin(p, clock) ==
    LET branch == get_valid_token_branch(p.obj, clock) IN
    IF branch = "inactive" THEN Returning(p, "inactive", EmptyToken, FALSE)
    ELSE IF branch = "valid" THEN Returning(p, "ok", p.obj.access_token, FALSE)
    ELSE IF has_refresh_token(p.obj) THEN Posting(p)
    ELSE Returning(p, "refresh_failed", EmptyToken, FALSE)

get_valid_token_end_stale(p, r) ==
    Returning([p EXCEPT !.obj = r.obj], "ok",
              IF r.success THEN r.obj.access_token ELSE p.obj.access_token, r.success)

\* get_valid_token after refresh_single_token returned.
get_valid_token_end(p, r) ==
    IF r.success
    THEN Returning([p EXCEPT !.obj = r.obj], "ok", r.obj.access_token, TRUE)
    ELSE Returning([p EXCEPT !.obj = r.obj], "refresh_failed", EmptyToken, FALSE)

\* A token consumer calls TokenRefreshService.get_valid_token on the record.
GetValid(w, t) ==
    /\ Dispatched(w)
    /\ proc' = [proc EXCEPT ![w] = get_valid_token_begin(Loaded("get_valid", db[t], now), now)]
    /\ UNCHANGED <<db, now, issued, lifecycle_vars>>

\* GET get-token/<id>/: the view's own is_active check, then the service; the
\* view answers with what the service returned or raised.
GetTokenView(w, t) ==
    /\ Dispatched(w)
    /\ LET p == Loaded("get_valid", db[t], now) IN
       proc' = [proc EXCEPT ![w] =
                   IF ~p.obj.is_active THEN Returning(p, "inactive", EmptyToken, FALSE)
                   ELSE get_valid_token_begin(p, now)]
    /\ UNCHANGED <<db, now, issued, lifecycle_vars>>

-----------------------------------------------------------------------------
(* GoHighLevelTokenMiddleware.process_request *)

\* The guard on a call under the API namespace that names the record.
process_request_begin(p, clock) ==
    IF needs_refresh(p.obj, clock) \/ is_token_expired(p.obj, clock)
    THEN IF has_refresh_token(p.obj) THEN Posting(p)
         ELSE Returning(p, "401", EmptyToken, FALSE)
    ELSE Returning(p, "pass", p.obj.access_token, FALSE)

process_request_end_forwarding(p, r) ==
    Returning([p EXCEPT !.obj = r.obj], "pass", r.obj.access_token, r.success)

process_request_end(p, r) ==
    IF r.success
    THEN Returning([p EXCEPT !.obj = r.obj], "pass", r.obj.access_token, TRUE)
    ELSE Returning([p EXCEPT !.obj = r.obj], "401", EmptyToken, FALSE)

Guard(w, t) ==
    /\ Dispatched(w)
    /\ proc' = [proc EXCEPT ![w] = process_request_begin(Loaded("guard", db[t], now), now)]
    /\ UNCHANGED <<db, now, issued, lifecycle_vars>>

-----------------------------------------------------------------------------
(* views.refresh_token: the manual per-tenant refresh *)

refresh_token_view_begin(p) ==
    IF has_refresh_token(p.obj) THEN Posting(p)
    ELSE Returning(p, "400", EmptyToken, FALSE)

\* The view's own copy of the exchange handling: any exception is a 500.
refresh_token_view_end(p, td, clock) ==
    IF td.kind = "ok"
    THEN [p |-> Returning([p EXCEPT !.obj = ApplyTokenData(p.obj, td, clock)],
                          "200", EmptyToken, TRUE), saved |-> TRUE]
    ELSE [p |-> Returning([p EXCEPT !.obj = IF td.kind = "bad_expires_in"
                                            THEN ApplyUntilExpiresIn(p.obj, td) ELSE @],
                          "500", EmptyToken, FALSE), saved |-> FALSE]

ManualRefresh(w, t) ==
    /\ Dispatched(w)
    /\ proc' = [proc EXCEPT ![w] = refresh_token_view_begin(Loaded("manual", db[t], now))]
    /\ UNCHANGED <<db, now, issued, lifecycle_vars>>

-----------------------------------------------------------------------------
(* TokenRefreshService.refresh_expired_tokens: the sweep *)

Visit(obj, clock, outcome) == [id |-> obj.id, at |-> clock, outcome |-> outcome]

\* filter(is_active=True, refresh_token__isnull=False).exclude(refresh_token='')
in_sweep_queryset(obj) == obj.is_active /\ obj.refresh_token # EmptyToken

\* The rows of the table in the order the query returns them.
AllRows(store) == [i \in 1..Len(TenantSeq) |-> store[TenantSeq[i]]]

sweep_tally_all_refreshed(p, success) == [p EXCEPT !.refreshed_count = @ + 1]

\* refreshed_count += 1 on success, failed_count += 1 otherwise.
sweep_tally(p, success) ==
    IF success THEN [p EXCEPT !.refreshed_count = @ + 1]
    ELSE [p EXCEPT !.failed_count = @ + 1]

\* The for loop from its current position up to the next token-exchange
\* request, or to the end of the queryset.
RECURSIVE sweep_loop(_, _)
sweep_loop(p, clock) ==
    IF p.queue = <<>> THEN Returning(p, "success", EmptyToken, FALSE)
    ELSE LET obj == Head(p.queue) IN
         IF ~needs_refresh(obj, clock)
         THEN sweep_loop([p EXCEPT !.queue = Tail(@),
                                   !.visited = Append(@, Visit(obj, clock, "skipped"))], clock)
         ELSE IF ~has_refresh_token(obj)
         THEN sweep_loop([sweep_tally(p, FALSE) EXCEPT
                                   !.queue = Tail(@),
                                   !.visited = Append(@, Visit(obj, clock, "no_refresh_token"))],
                         clock)
         ELSE Posting([p EXCEPT !.obj = obj, !.queue = Tail(@),
                                !.visited = Append(@, Visit(obj, clock, "pending"))])

sweep_after_refresh_aborting(p, r, clock) ==
    LET q == [sweep_tally(p, r.success) EXCEPT !.obj = r.obj]
    IN IF r.success THEN sweep_loop(q, clock) ELSE Returning(q, "success", EmptyToken, FALSE)

\* The loop body after refresh_single_token returned, and on to the next record.
sweep_after_refresh(p, r, clock) ==
    sweep_loop([sweep_tally(p, r.success) EXCEPT !.obj = r.obj], clock)

\* The hourly and weekly cron jobs, the bulk-refresh view and the management
\* command all run the sweep.
refresh_expired_tokens_begin(store, clock) ==
    sweep_loop([Idle EXCEPT !.op = "sweep",
                            !.snap = AllRows(store),
                            !.started = clock,
                            !.queue = SelectSeq(AllRows(store), in_sweep_queryset)],
               clock)

Sweep(w) ==
    /\ Dispatched(w)
    /\ proc' = [proc EXCEPT ![w] = refresh_expired_tokens_begin(db, now)]
    /\ UNCHANGED <<db, now, issued, lifecycle_vars>>

\* The hourly cron job: a sweep starts whenever the previous one is over.
SweepTriggered(w) ==
    /\ proc[w].pc \in {"idle", "done"}
    /\ proc' = [proc EXCEPT ![w] = refresh_expired_tokens_begin(db, now)]
    /\ UNCHANGED <<db, now, issued, lifecycle_vars>>

-----------------------------------------------------------------------------
(* The provider answers a posted token-exchange request *)

ServiceOps == {"get_valid", "guard", "sweep"}

\* The call's history once the answer td arrived and the store became store2.
Answered(p, td, store, store2) ==
    [p EXCEPT !.answer = td.kind,
              !.touched = @ \cup {t \in Tenants : store2[t] # store[t]},
              !.visited = IF p.op = "sweep"
                          THEN [@ EXCEPT ![Len(@)].outcome = td.kind] ELSE @]

\* The answer reaches refresh_single_token, which returns to its caller.
ExchangeAnswered(w, td) ==
    /\ proc[w].pc = "exchange"
    /\ proc[w].op \in ServiceOps
    /\ LET res == refresh_single_token(proc[w].obj, td, now)
           r == [res EXCEPT !.obj = IF res.saved THEN auto_now(@, now) ELSE @]
           store2 == IF r.saved THEN save(db, r.obj) ELSE db
           p == Answered(proc[w], td, db, store2)
       IN /\ Issues(td) => issued < MaxExchanges
          /\ issued' = IF Issues(td) THEN issued + 1 ELSE issued
          /\ db' = store2
          /\ proc' = [proc EXCEPT ![w] =
                IF p.op = "sweep" THEN sweep_after_refresh(p, r, now)
                ELSE IF p.op = "guard" THEN process_request_end(p, r)
                ELSE get_valid_token_end(p, r)]
    /\ UNCHANGED <<now, lifecycle_vars>>

ExchangeReturns(w) == \E td \in Outcomes(issued) : ExchangeAnswered(w, td)

\* The answer reaches the manual refresh view.
ManualExchangeReturns(w) ==
    /\ proc[w].pc = "exchange"
    /\ proc[w].op = "manual"
    /\ \E td \in Outcomes(issued) :
          LET res == refresh_token_view_end(proc[w], td, now)
              r == [res EXCEPT !.p.obj = IF res.saved THEN auto_now(@, now) ELSE @]
              store2 == IF r.saved THEN save(db, r.p.obj) ELSE db
          IN /\ Issues(td) => issued < MaxExchanges
             /\ issued' = IF Issues(td) THEN issued + 1 ELSE issued
             /\ db' = store2
             /\ proc' = [proc EXCEPT ![w] = Answered(r.p, td, db, store2)]
    /\ UNCHANGED <<now, lifecycle_vars>>

-----------------------------------------------------------------------------
(* The administrative bulk deactivation and the clock *)

\* queryset.update(is_active=False): an UPDATE of that one column.
deactivate_integrations(t) ==
    /\ db[t].is_active
    /\ db' = [db EXCEPT ![t].is_active = FALSE]
    /\ UNCHANGED <<now, issued, proc, lifecycle_vars>>

Tick ==
    /\ now < MaxTime
    /\ now' = now + 1
    /\ UNCHANGED <<db, issued, proc, lifecycle_vars>>

-----------------------------------------------------------------------------
(* TokenHealthService.get_token_health_summary *)

\* round(healthy / total * 100, 2) if total > 0 else 0, in hundredths of a
\* percent (a tie of the last digit, which no table of the model produces,
\* would be rounded up here).
health_percentage(healthy, total) ==
    IF total > 0 THEN (2 * healthy * 10000 + total) \div (2 * total) ELSE 0

get_token_health_summary(store, clock) ==
    LET integrations == {t \in DOMAIN store : store[t].is_active}
        healthy == Cardinality({t \in integrations :
                        ~is_token_expired(store[t], clock) /\ ~needs_refresh(store[t], clock)})
    IN [total_integrations |-> Cardinality(integrations),
        expired_tokens |-> Cardinality({t \in integrations : is_token_expired(store[t], clock)}),
        needs_refresh |-> Cardinality({t \in integrations : needs_refresh(store[t], clock)}),
        healthy_tokens |-> healthy,
        health_percentage |-> health_percentage(healthy, Cardinality(integrations))]

\* timedelta(hours=n) and timedelta(days=n), in ticks.
Hours(n) == n * TicksPerHour
Days(n) == 24 * Hours(n)

\* The hours argument of get_tokens_expiring_soon: its callers pass 24.
ExpiringSoonHours == {24}

\* filter(is_active=True, expires_at__lte=now + hours).order_by('expires_at'):
\* the ids of the rows, soonest first (rows of equal expiry in table order).
get_tokens_expiring_soon(store, clock, hours) ==
    LET rows == SelectSeq(AllRows(store),
                          LAMBDA obj : obj.is_active /\ obj.expires_at <= clock + Hours(hours))
        sorted == SortSeq(rows, LAMBDA a, b : a.expires_at < b.expires_at)
    IN [i \in 1..Len(sorted) |-> sorted[i].id]

\* cron.daily_token_health_check: the summary, the active rows expired for
\* more than 7 days and the active rows not saved for more than 30 days, which
\* it logs; and the table as the job leaves it.
daily_token_health_check_deactivating(store, clock) ==
    LET unused == {t \in DOMAIN store :
                      store[t].is_active /\ store[t].last_used_at < clock - Days(30)}
    IN [report |-> [NoReport EXCEPT
                      !.health = get_token_health_summary(store, clock),
                      !.severely_expired =
                          {t \in DOMAIN store :
                              store[t].is_active /\ store[t].expires_at < clock - Days(7)},
                      !.unused = unused],
        store |-> [t \in DOMAIN store |->
                      IF t \in unused THEN [store[t] EXCEPT !.is_active = FALSE]
                      ELSE store[t]]]

daily_token_health_check(store, clock) ==
    [report |-> [NoReport EXCEPT
                   !.health = get_token_health_summary(store, clock),
                   !.severely_expired =
                       {t \in DOMAIN store :
                           store[t].is_active /\ store[t].expires_at < clock - Days(7)},
                   !.unused =
                       {t \in DOMAIN store :
                           store[t].is_active /\ store[t].last_used_at < clock - Days(30)}],
     store |-> store]

\* A finished call of the health monitor on the table.
Reported(op, store, clock, report) ==
    [Idle EXCEPT !.pc = "done", !.op = op, !.status = "success",
                 !.snap = AllRows(store), !.started = clock, !.report = report]

\* The health view, the health headers of the response middleware and the
\* management command ask for the summary.
HealthSummary(w) ==
    /\ Dispatched(w)
    /\ proc' = [proc EXCEPT ![w] =
                   Reported("health_summary", db, now,
                            [NoReport EXCEPT !.health = get_token_health_summary(db, now)])]
    /\ UNCHANGED <<db, now, issued, lifecycle_vars>>

ExpiringSoon(w, hours) ==
    /\ Dispatched(w)
    /\ proc' = [proc EXCEPT ![w] =
                   Reported("expiring_soon", db, now,
                            [NoReport EXCEPT
                                !.expiring_soon = get_tokens_expiring_soon(db, now, hours)])]
    /\ UNCHANGED <<db, now, issued, lifecycle_vars>>

DailyHealthCheck(w) ==
    /\ Dispatched(w)
    /\ LET r == daily_token_health_check(db, now)
       IN /\ db' = r.store
          /\ proc' = [proc EXCEPT ![w] = Reported("daily_health", db, now, r.report)]
    /\ UNCHANGED <<now, issued, lifecycle_vars>>

-----------------------------------------------------------------------------
(* Account lifecycle: the tables *)

LocationSeq == <<"L1", "L2">>
LocationIds == {LocationSeq[i] : i \in 1..Len(LocationSeq)}
\* Requests name the first location; a row of another location is a bystander.
RequestLocations == {LocationSeq[1]}
\* A payload that carries no locationId under any of the four keys.
NoLocation == "none"

\* Metadata strings are numbers; '' (and a missing key) is EmptyToken.
\* A row of ghl_integration: id is the UUID primary key, location_id is unique.
NoRow == [id |-> 0, location_id |-> NoLocation, is_active |-> FALSE,
          access_token |-> EmptyToken, refresh_token |-> EmptyToken, expires_at |-> 0,
          company_name |-> EmptyToken, company_id |-> EmptyToken, user_id |-> EmptyToken,
          installed_at |-> 0]

\* objects.filter(location_id=...)
RowsAt(table, location_id) == {r \in table : r.location_id = location_id}

\* uuid.uuid4(): an id no row has; rows are never deleted.
new_id(table) == Cardinality(table) + 1

\* Model.save() of a loaded object: an UPDATE of every column of the row with
\* the object's primary key.
save_row(table, obj) == {r \in table : r.id # obj.id} \cup {obj}

\* timedelta(hours=1): the expiry a placeholder record is created with.
PlaceholderWindow == TicksPerHour

-----------------------------------------------------------------------------
(* Account lifecycle: requests *)

\* companyName, companyId and userId of a webhook payload.
PayloadMeta == {<<EmptyToken, EmptyToken, EmptyToken>>, <<1, 1, EmptyToken>>}

EventTypes == {"INSTALL", "UNINSTALL", "unknown"}

\* The body of a POST to the webhook endpoint: bytes that are no JSON, a JSON
\* value that is no object, or an object.  type is webhook_data.get('type') or
\* webhook_data.get('eventType') or 'unknown'; locationId is the first non-empty
\* of the four places the handler looks in.
NoBody == [kind |-> "none", type |-> "unknown", locationId |-> NoLocation,
           companyName |-> EmptyToken, companyId |-> EmptyToken, userId |-> EmptyToken]

Bodies ==
    {[NoBody EXCEPT !.kind = k] : k \in {"invalid_json", "non_object"}}
    \cup
    {[kind |-> "object", type |-> ty, locationId |-> l,
      companyName |-> m[1], companyId |-> m[2], userId |-> m[3]]
        : ty \in EventTypes, l \in RequestLocations \cup {NoLocation}, m \in PayloadMeta}

\* A request in progress.  pc, op, body, integration (the in-memory object)
\* and webhook (the id of the stored event) are the handler's own state;
\* status is the HTTP status it answered with and call the service call it
\* made; token_data is what the code exchange of the OAuth callback returned.
\* The other fields record its history: the row the lookup found, whether
\* and when it created a row, the rows it saved, in order, and the number of
\* linked tokens it deleted (deleted_count) and left right after its delete.
NoTokenData == [kind |-> "none", access_token |-> EmptyToken, has_refresh_token |-> FALSE,
                refresh_token |-> EmptyToken, has_expires_in |-> FALSE, expires_in |-> 0]

\* An integration id as a request carries it: none, the text of a UUID (the
\* number of the row it would name), or text that is no UUID.
NoId == [kind |-> "none", value |-> 0]

RowId(n) == [kind |-> "uuid", value |-> n]

MalformedId == [kind |-> "malformed", value |-> 0]

\* The body of a call as the guard reads it: bytes that cannot be decoded,
\* text that is no JSON, a JSON value that is no object, or an object with or
\* without integration_id.
GuardBodies ==
    {[kind |-> k, integration_id |-> NoId] : k \in {"undecodable", "invalid_json", "non_object"}}
    \cup
    {[kind |-> "object", integration_id |-> i] : i \in {NoId, RowId(1)}}

\* A call as the guard sees it: whether its path is under the API namespace,
\* integration_id of the query or form, the X-GHL-Integration-ID header,
\* whether the content type is application/json, and the body.  The id past
\* the last row names no record.  A call of another content type comes with
\* one body, bytes that cannot be decoded.
GuardCalls ==
    {c \in [in_namespace : BOOLEAN,
            param : {NoId, RowId(Cardinality(LocationIds) + 1), MalformedId},
            header : {NoId, RowId(1)},
            json : BOOLEAN,
            body : GuardBodies] : ~c.json => c.body.kind = "undecodable"}

NoGuardCall == [in_namespace |-> FALSE, param |-> NoId, header |-> NoId, json |-> FALSE,
                body |-> [kind |-> "none", integration_id |-> NoId]]

NoRequest == [pc |-> "idle", op |-> "none", body |-> NoBody, guard_call |-> NoGuardCall,
              integration |-> NoRow, webhook |-> 0, status |-> 0, call |-> Idle,
              token_data |-> NoTokenData, lookup |-> "none",
              found |-> NoRow, created |-> FALSE, created_at |-> 0,
              saved |-> <<>>, deleted_count |-> 0, tokens_left |-> 0]

\* The requests that arrive while Workers serve them, one each.
Arrivals == 1..Cardinality(Workers)

\* Request w arrives: the ones before it have, and it has not.
Taking(w) ==
    /\ requests[w].pc = "idle"
    /\ \A j \in 1..(w - 1) : requests[j].pc # "idle"

Responding(r, status) == [r EXCEPT !.pc = "done", !.status = status]

-----------------------------------------------------------------------------
(* views.webhook_handler and views.process_webhook *)

\* The row the handler creates for a location it found no row for.
placeholder_inactive(table, body, clock) ==
    [id |-> new_id(table), location_id |-> body.locationId, is_active |-> FALSE,
     access_token |-> EmptyToken, refresh_token |-> EmptyToken,
     expires_at |-> clock + PlaceholderWindow,
     company_name |-> body.companyName, company_id |-> body.companyId,
     user_id |-> body.userId, installed_at |-> clock]

placeholder_long_lived(table, body, clock) ==
    [id |-> new_id(table), location_id |-> body.locationId, is_active |-> TRUE,
     access_token |-> EmptyToken, refresh_token |-> EmptyToken,
     expires_at |-> clock + 2 * PlaceholderWindow,
     company_name |-> body.companyName, company_id |-> body.companyId,
     user_id |-> body.userId, installed_at |-> clock]

placeholder(table, body, clock) ==
    [id |-> new_id(table), location_id |-> body.locationId, is_active |-> TRUE,
     access_token |-> EmptyToken, refresh_token |-> EmptyToken,
     expires_at |-> clock + PlaceholderWindow,
     company_name |-> body.companyName, company_id |-> body.companyId,
     user_id |-> body.userId, installed_at |-> clock]

\* json.loads, the lookups in webhook_data and objects.get(location_id=...).
\* A JSON value that is no object has no .get: the AttributeError is answered
\* by the outer except with a 500.
webhook_handler_begin(table, body) ==
    LET r == [NoRequest EXCEPT !.op = "webhook", !.body = body] IN
    IF body.kind = "invalid_json" THEN Responding(r, 400)
    ELSE IF body.kind = "non_object" THEN Responding(r, 500)
    ELSE IF body.locationId = NoLocation THEN Responding(r, 400)
    ELSE IF RowsAt(table, body.locationId) = {} THEN [r EXCEPT !.pc = "create_integration"]
    ELSE LET row == CHOOSE x \in RowsAt(table, body.locationId) : TRUE
         IN [r EXCEPT !.pc = "store_event", !.integration = row, !.found = row]

WebhookReceived(w, body) ==
    /\ Taking(w)
    /\ requests' = [requests EXCEPT ![w] = webhook_handler_begin(ghl_integration, body)]
    /\ UNCHANGED <<db, now, issued, proc, ghl_integration, ghl_webhook, whatsapp_tokens>>

\* GoHighLevelIntegration.objects.create(...): location_id is unique, so the
\* INSERT raises IntegrityError when another request created the row since
\* the lookup; the outer except answers 500.
WebhookCreatesIntegration(w) ==
    /\ requests[w].pc = "create_integration"
    /\ LET r == requests[w]
           row == placeholder(ghl_integration, r.body, now)
       IN IF RowsAt(ghl_integration, r.body.locationId) # {}
          THEN /\ requests' = [requests EXCEPT ![w] = Responding(r, 500)]
               /\ UNCHANGED ghl_integration
          ELSE /\ ghl_integration' = ghl_integration \cup {row}
               /\ requests' = [requests EXCEPT ![w] =
                      [r EXCEPT !.pc = "store_event", !.integration = row,
                                !.created = TRUE, !.created_at = now]]
    /\ UNCHANGED <<db, now, issued, proc, ghl_webhook, whatsapp_tokens>>

\* A row of ghl_webhook as GoHighLevelWebhook.objects.create stores it.
webhook_row(table, r) ==
    [id |-> Cardinality(table) + 1, integration |-> r.integration.id,
     event_type |-> r.body.type, event_data |-> r.body, processed |-> FALSE]

\* The step of process_webhook that follows the stored event.
after_store(event_type) ==
    IF event_type = "UNINSTALL" THEN "deactivate"
    ELSE IF event_type = "INSTALL" THEN "activate"
    ELSE "mark_processed"

WebhookStoresEvent(w) ==
    /\ requests[w].pc = "store_event"
    /\ LET r == requests[w]
           ev == webhook_row(ghl_webhook, r)
       IN /\ ghl_webhook' = ghl_webhook \cup {ev}
          /\ requests' = [requests EXCEPT ![w] =
                 [r EXCEPT !.pc = after_store(ev.event_type), !.webhook = ev.id]]
    /\ UNCHANGED <<db, now, issued, proc, ghl_integration, whatsapp_tokens>>

\* webhook.integration.is_active = False; webhook.integration.save()
uninstall_erasing(obj) ==
    [obj EXCEPT !.is_active = FALSE, !.access_token = EmptyToken,
                !.refresh_token = EmptyToken]

uninstall_toggling(obj) == [obj EXCEPT !.is_active = ~@]

uninstall(obj) == [obj EXCEPT !.is_active = FALSE]

ProcessWebhookDeactivates(w) ==
    /\ requests[w].pc = "deactivate"
    /\ LET r == requests[w]
           obj == uninstall(r.integration)
       IN /\ ghl_integration' = save_row(ghl_integration, obj)
          /\ requests' = [requests EXCEPT ![w] =
                 [r EXCEPT !.pc = "delete_tokens", !.integration = obj,
                           !.saved = Append(@, obj)]]
    /\ UNCHANGED <<db, now, issued, proc, ghl_webhook, whatsapp_tokens>>

\* WhatsAppAccessToken.objects.filter(integration=...).delete()
delete_tokens_of_all(tokens, integration_id) == {}

delete_tokens(tokens, integration_id) == tokens \ {integration_id}

ProcessWebhookDeletesTokens(w) ==
    /\ requests[w].pc = "delete_tokens"
    /\ LET r == requests[w]
           left == delete_tokens(whatsapp_tokens, r.integration.id)
       IN /\ whatsapp_tokens' = left
          /\ requests' = [requests EXCEPT ![w] =
                 [r EXCEPT !.pc = "mark_processed",
                           !.deleted_count = Cardinality(whatsapp_tokens \cap {r.integration.id}),
                           !.tokens_left = Cardinality(left \cap {r.integration.id})]]
    /\ UNCHANGED <<db, now, issued, proc, ghl_integration, ghl_webhook>>

\* webhook.integration.is_active = True; webhook.integration.save()
ProcessWebhookActivates(w) ==
    /\ requests[w].pc = "activate"
    /\ LET r == requests[w]
           obj == [r.integration EXCEPT !.is_active = TRUE]
       IN /\ ghl_integration' = save_row(ghl_integration, obj)
          /\ requests' = [requests EXCEPT ![w] =
                 [r EXCEPT !.pc = "merge", !.integration = obj, !.saved = Append(@, obj)]]
    /\ UNCHANGED <<db, now, issued, proc, ghl_webhook, whatsapp_tokens>>

\* if webhook_data.get('companyName'): ... and the same for companyId, userId.
merge_overwriting(obj, body) ==
    [obj EXCEPT !.company_name = body.companyName,
                !.company_id = body.companyId,
                !.user_id = body.userId]

merge(obj, body) ==
    [obj EXCEPT !.company_name = IF body.companyName # EmptyToken THEN body.companyName ELSE @,
                !.company_id = IF body.companyId # EmptyToken THEN body.companyId ELSE @,
                !.user_id = IF body.userId # EmptyToken THEN body.userId ELSE @]

ProcessWebhookMerges(w) ==
    /\ requests[w].pc = "merge"
    /\ LET r == requests[w]
           obj == merge(r.integration, r.body)
       IN /\ ghl_integration' = save_row(ghl_integration, obj)
          /\ requests' = [requests EXCEPT ![w] =
                 [r EXCEPT !.pc = "mark_processed", !.integration = obj,
                           !.saved = Append(@, obj)]]
    /\ UNCHANGED <<db, now, issued, proc, ghl_webhook, whatsapp_tokens>>

\* webhook.processed = True; webhook.save(); the handler answers 200.
mark_processed(table, id) ==
    {IF ev.id = id THEN [ev EXCEPT !.processed = TRUE] ELSE ev : ev \in table}

ProcessWebhookMarks(w) ==
    /\ requests[w].pc = "mark_processed"
    /\ ghl_webhook' = mark_processed(ghl_webhook, requests[w].webhook)
    /\ requests' = [requests EXCEPT ![w] = Responding(requests[w], 200)]
    /\ UNCHANGED <<db, now, issued, proc, ghl_integration, whatsapp_tokens>>

-----------------------------------------------------------------------------
(* views.oauth_callback *)

\* location_info.get('companyName', '') and user_info.get('id', '').
OAuthInfo == {<<EmptyToken, EmptyToken>>, <<2, 2>>}

\* get_user_info or get_location_info raised: the request failed or was
\* answered with an error status.
LookupFailed == <<>>

\* What the two lookups of a callback come to.
OAuthLookups == OAuthInfo \cup {LookupFailed}

\* The query of the callback: whether it carries a code, and its locationId.
OAuthQueries == [code : BOOLEAN, locationId : RequestLocations \cup {NoLocation}]

\* The defaults of update_or_create, applied to the row of the location or to
\* a new row (is_active and company_id then take the field defaults).
oauth_defaults_activating(obj, td, info, clock) ==
    [obj EXCEPT !.access_token = td.access_token,
                !.refresh_token = IF td.has_refresh_token THEN td.refresh_token ELSE EmptyToken,
                !.expires_at = clock + (IF td.has_expires_in THEN td.expires_in
                                                             ELSE DefaultExpiresIn),
                !.company_name = info[1],
                !.user_id = info[2],
                !.is_active = TRUE]

oauth_defaults_reinstalling(obj, td, info, clock) ==
    [obj EXCEPT !.access_token = td.access_token,
                !.refresh_token = IF td.has_refresh_token THEN td.refresh_token ELSE EmptyToken,
                !.expires_at = clock + (IF td.has_expires_in THEN td.expires_in
                                                             ELSE DefaultExpiresIn),
                !.company_name = info[1],
                !.user_id = info[2],
                !.installed_at = clock]

oauth_defaults(obj, td, info, clock) ==
    [obj EXCEPT !.access_token = td.access_token,
                !.refresh_token = IF td.has_refresh_token THEN td.refresh_token ELSE EmptyToken,
                !.expires_at = clock + (IF td.has_expires_in THEN td.expires_in
                                                             ELSE DefaultExpiresIn),
                !.company_name = info[1],
                !.user_id = info[2]]

\* update_or_create(location_id=..., defaults=...): one atomic statement
\* against the table; the row it leaves.
update_or_create_always_creating(table, location_id, td, info, clock) ==
    oauth_defaults([NoRow EXCEPT !.id = new_id(table), !.location_id = location_id,
                                 !.is_active = TRUE, !.installed_at = clock], td, info, clock)

update_or_create(table, location_id, td, info, clock) ==
    IF RowsAt(table, location_id) # {}
    THEN oauth_defaults(CHOOSE x \in RowsAt(table, location_id) : TRUE, td, info, clock)
    ELSE oauth_defaults([NoRow EXCEPT !.id = new_id(table), !.location_id = location_id,
                                      !.is_active = TRUE, !.installed_at = clock], td, info, clock)

\* The status the callback answers with before any exchange: 400 without a
\* code, the success page without a locationId; 0 when it goes on to exchange.
oauth_callback_begin_without_location(q) ==
    IF ~q.code THEN 400 ELSE 0

oauth_callback_begin(q) ==
    IF ~q.code THEN 400
    ELSE IF q.locationId = NoLocation THEN 200
    ELSE 0

\* The callback once the code exchange has returned token_data: the two
\* lookups, then update_or_create.  A lookup that raises is caught by the
\* handler's except clause, before the table is read or written.
oauth_callback_end_storing_before_lookup(table, location_id, td, info, clock) ==
    IF info = LookupFailed
    THEN [status |-> 500, row |-> NoRow,
          table |-> save_row(table, update_or_create(table, location_id, td,
                                                     <<EmptyToken, EmptyToken>>, clock))]
    ELSE [status |-> 200, row |-> update_or_create(table, location_id, td, info, clock),
          table |-> save_row(table, update_or_create(table, location_id, td, info, clock))]

oauth_callback_end(table, location_id, td, info, clock) ==
    IF info = LookupFailed
    THEN [status |-> 500, row |-> NoRow, table |-> table]
    ELSE [status |-> 200, row |-> update_or_create(table, location_id, td, info, clock),
          table |-> save_row(table, update_or_create(table, location_id, td, info, clock))]

\* The callback waits for the provider (code exchange, user and location
\* info) before it reads or writes the table, so what it does to the table is
\* one step.  Any exception is answered 500.
OAuthCallback(w, q, td, info) ==
    /\ Taking(w)
    /\ LET r == [NoRequest EXCEPT !.op = "oauth",
                                  !.body = [NoBody EXCEPT
                                               !.kind = IF q.code THEN "code" ELSE "no_code",
                                               !.locationId = q.locationId]]
       IN IF oauth_callback_begin(q) # 0
          THEN /\ requests' = [requests EXCEPT ![w] = Responding(r, oauth_callback_begin(q))]
               /\ UNCHANGED <<ghl_integration, issued>>
          ELSE IF td.kind # "ok"
          THEN /\ Issues(td) => issued < MaxExchanges
               /\ issued' = IF Issues(td) THEN issued + 1 ELSE issued
               /\ requests' = [requests EXCEPT ![w] =
                      [Responding(r, 500) EXCEPT !.token_data = td]]
               /\ UNCHANGED ghl_integration
          ELSE IF oauth_callback_end(ghl_integration, q.locationId, td, info, now).status # 200
          THEN LET end == oauth_callback_end(ghl_integration, q.locationId, td, info, now)
               IN /\ issued < MaxExchanges
                  /\ issued' = issued + 1
                  /\ ghl_integration' = end.table
                  /\ requests' = [requests EXCEPT ![w] =
                         [Responding(r, end.status) EXCEPT !.token_data = td,
                                                           !.lookup = "failed"]]
          ELSE LET row == oauth_callback_end(ghl_integration, q.locationId, td, info, now).row
               IN /\ issued < MaxExchanges
                  /\ issued' = issued + 1
                  /\ ghl_integration' = save_row(ghl_integration, row)
                  /\ requests' = [requests EXCEPT ![w] =
                         [Responding(r, 200) EXCEPT
                             !.integration = row,
                             !.lookup = "ok",
                             !.token_data = td,
                             !.found = IF RowsAt(ghl_integration, q.locationId) = {} THEN NoRow
                                       ELSE CHOOSE x \in RowsAt(ghl_integration, q.locationId) : TRUE,
                             !.created = RowsAt(ghl_integration, q.locationId) = {},
                             !.created_at = now,
                             !.saved = <<row>>]]
    /\ UNCHANGED <<db, now, proc, ghl_webhook, whatsapp_tokens>>

-----------------------------------------------------------------------------
(* views.manage_whatsapp_token *)

\* POST: get_or_create of the location's WhatsAppAccessToken.
WhatsAppTokenPosted(l) ==
    /\ RowsAt(ghl_integration, l) # {}
    /\ whatsapp_tokens' = whatsapp_tokens \cup {r.id : r \in RowsAt(ghl_integration, l)}
    /\ UNCHANGED <<db, now, issued, proc, ghl_integration, ghl_webhook, requests>>

\* DELETE: the location's WhatsAppAccessToken is deleted.
WhatsAppTokenDeleted(l) ==
    /\ \E r \in RowsAt(ghl_integration, l) : r.id \in whatsapp_tokens
    /\ whatsapp_tokens' = whatsapp_tokens \ {r.id : r \in RowsAt(ghl_integration, l)}
    /\ UNCHANGED <<db, now, issued, proc, ghl_integration, ghl_webhook, requests>>

-----------------------------------------------------------------------------
(* views.get_valid_token on a row of the lifecycle table *)

\* The HTTP status of the get-token view for what the service call returned.
get_token_status(call) == IF call.status = "ok" THEN 200 ELSE 500

TokenRequested(w, row) ==
    /\ Taking(w)
    /\ row \in ghl_integration
    /\ LET p == Loaded("get_valid", row, now)
           call == IF ~row.is_active THEN Returning(p, "inactive", EmptyToken, FALSE)
                   ELSE get_valid_token_begin(p, now)
           r == [NoRequest EXCEPT !.op = "get_valid", !.integration = row, !.found = row,
                                  !.body = [NoBody EXCEPT !.locationId = row.location_id],
                                  !.call = call]
       IN requests' = [requests EXCEPT ![w] =
              IF call.pc = "done" THEN Responding(r, get_token_status(call))
              ELSE [r EXCEPT !.pc = "exchange"]]
    /\ UNCHANGED <<db, now, issued, proc, ghl_integration, ghl_webhook, whatsapp_tokens>>

\* The HTTP status of a request the guard handled: its own 401, or the view's.
guard_status(call) == IF call.status = "401" THEN 401 ELSE 200

\* A request under the API namespace names the row: the guard loads it.
GuardRequested(w, row) ==
    /\ Taking(w)
    /\ row \in ghl_integration
    /\ LET call == process_request_begin(Loaded("guard", row, now), now)
           r == [NoRequest EXCEPT !.op = "guard", !.integration = row, !.found = row,
                                  !.body = [NoBody EXCEPT !.locationId = row.location_id],
                                  !.call = call]
       IN requests' = [requests EXCEPT ![w] =
              IF call.pc = "done" THEN Responding(r, guard_status(call))
              ELSE [r EXCEPT !.pc = "exchange"]]
    /\ UNCHANGED <<db, now, issued, proc, ghl_integration, ghl_webhook, whatsapp_tokens>>

\* refresh_single_token from token_data = response.json() on, and the rest of
\* the get-token or guard request that called it.
TokenDataHandled(w, td) ==
    LET r == requests[w]
        res == refresh_single_token(r.call.obj, td, now)
        answered == [r.call EXCEPT !.answer = td.kind]
        call == IF r.op = "guard" THEN process_request_end(answered, res)
                ELSE get_valid_token_end(answered, res)
        status == IF r.op = "guard" THEN guard_status(call) ELSE get_token_status(call)
    IN /\ ghl_integration' = IF res.saved THEN save_row(ghl_integration, res.obj)
                             ELSE ghl_integration
       /\ requests' = [requests EXCEPT ![w] =
              [Responding(r, status) EXCEPT
                  !.call = call, !.integration = res.obj,
                  !.saved = IF res.saved THEN Append(@, res.obj) ELSE @]]

\* any(pattern in path for pattern in ghl_patterns)
is_ghl_api_request(call) == call.in_namespace

\* json.loads(request.body) raised an exception the method does not catch.
Raised == [kind |-> "raised", value |-> 0]

\* The first non-empty of the query or form parameter, the header and, for a
\* JSON content type, the body's integration_id.  JSONDecodeError and
\* AttributeError are caught; the UnicodeDecodeError of bytes that cannot be
\* decoded is not.
get_integration_id_from_request(call) ==
    IF call.param # NoId THEN call.param
    ELSE IF call.header # NoId THEN call.header
    ELSE IF call.json
    THEN IF call.body.kind = "undecodable" THEN Raised
         ELSE IF call.body.kind = "object" THEN call.body.integration_id
         ELSE NoId
    ELSE NoId

\* objects.get(id=integration_id): the rows it finds; text that is no UUID
\* raises ValidationError, caught by the except Exception clause.
RowsNamed(table, id) == {r \in table : id.kind = "uuid" /\ r.id = id.value}

\* process_request on any call.  An exception of the id extraction, which
\* runs outside the try block, leaves the middleware: the call is answered
\* 500 and the view never runs.
GuardCalled(w, call) ==
    /\ Taking(w)
    /\ LET r == [NoRequest EXCEPT !.op = "guard", !.guard_call = call]
           id == get_integration_id_from_request(call)
       IN IF ~is_ghl_api_request(call)
          THEN requests' = [requests EXCEPT ![w] = Responding(r, 200)]
          ELSE IF id = Raised
          THEN requests' = [requests EXCEPT ![w] = Responding(r, 500)]
          ELSE IF id = NoId \/ RowsNamed(ghl_integration, id) = {}
          THEN requests' = [requests EXCEPT ![w] = Responding(r, 200)]
          ELSE LET row == CHOOSE x \in RowsNamed(ghl_integration, id) : TRUE
                   svc == process_request_begin(Loaded("guard", row, now), now)
                   q == [r EXCEPT !.integration = row, !.found = row,
                                  !.body = [NoBody EXCEPT !.locationId = row.location_id],
                                  !.call = svc]
               IN requests' = [requests EXCEPT ![w] =
                      IF svc.pc = "done" THEN Responding(q, guard_status(svc))
                      ELSE [q EXCEPT !.pc = "exchange"]]
    /\ UNCHANGED <<db, now, issued, proc, ghl_integration, ghl_webhook, whatsapp_tokens>>

\* The provider answers the exchange of a get-token or guard request.
TokenExchangeReturns(w) ==
    /\ requests[w].pc = "exchange"
    /\ \E td \in Outcomes(issued) :
          /\ Issues(td) => issued < MaxExchanges
          /\ issued' = IF Issues(td) THEN issued + 1 ELSE issued
          /\ TokenDataHandled(w, td)
    /\ UNCHANGED <<db, now, proc, ghl_webhook, whatsapp_tokens>>

\* The same in two steps, as the worker runs them: the provider answers the
\* request (it has issued the pair it answers with), and some time later the
\* worker has read the answer, assigned the fields and saved the row.
TokenResponseArrives(w) ==
    /\ requests[w].pc = "exchange"
    /\ \E td \in Outcomes(issued) :
          /\ Issues(td) => issued < MaxExchanges
          /\ issued' = IF Issues(td) THEN issued + 1 ELSE issued
          /\ requests' = [requests EXCEPT ![w] = [@ EXCEPT !.pc = "save", !.token_data = td]]
    /\ UNCHANGED <<db, now, proc, ghl_integration, ghl_webhook, whatsapp_tokens>>

TokenSaved(w) ==
    /\ requests[w].pc = "save"
    /\ TokenDataHandled(w, requests[w].token_data)
    /\ UNCHANGED <<db, now, issued, proc, ghl_webhook, whatsapp_tokens>>

\* Time passes.
ClockAdvances ==
    /\ now < MaxTime
    /\ now' = now + 1
    /\ UNCHANGED <<db, issued, proc, lifecycle_vars>>

-----------------------------------------------------------------------------
(* The specification *)

InitialExpiry == {0, RefreshWindow, RefreshWindow + 1}

\* Records as an installation leaves them.  The first tenant ranges over every
\* kind: a record created by the OAuth callback, with or without a refresh
\* token, expired, due or healthy, and a placeholder created by an install
\* webhook (empty tokens, expiry one hour after receipt).  The other tenants
\* were installed by the OAuth callback with a refresh token and are healthy
\* until the clock moves.
InitialRecords(t) ==
    {[id |-> t, is_active |-> TRUE, access_token |-> InitialToken(t),
      refresh_token |-> r, expires_at |-> e, last_used_at |-> 0]
        : r \in IF t = TenantSeq[1] THEN {EmptyToken, InitialToken(t)} ELSE {InitialToken(t)},
          e \in IF t = TenantSeq[1] THEN InitialExpiry ELSE {RefreshWindow + 1}}
    \cup
    {[id |-> t, is_active |-> TRUE, access_token |-> EmptyToken,
      refresh_token |-> EmptyToken, expires_at |-> e, last_used_at |-> 0]
        : e \in IF t = TenantSeq[1] THEN {RefreshWindow} ELSE {}}

Init ==
    /\ db \in [Tenants -> UNION {InitialRecords(t) : t \in Tenants}]
    /\ \A t \in Tenants : db[t].id = t
    /\ now = 0
    /\ issued = 0
    /\ proc = [w \in Workers |-> Idle]
    /\ ghl_integration = {}
    /\ ghl_webhook = {}
    /\ whatsapp_tokens = {}
    /\ requests = [w \in Arrivals |-> NoRequest]

Next ==
    \/ \E w \in Workers, t \in Tenants : GetValid(w, t)
    \/ \E w \in Workers, t \in Tenants : GetTokenView(w, t)
    \/ \E w \in Workers, t \in Tenants : Guard(w, t)
    \/ \E w \in Workers, t \in Tenants : ManualRefresh(w, t)
    \/ \E w \in Workers : Sweep(w)
    \/ \E w \in Workers : ExchangeReturns(w)
    \/ \E w \in Workers : ManualExchangeReturns(w)
    \/ \E t \in Tenants : deactivate_integrations(t)
    \/ Tick

Spec == Init /\ [][Next]_vars

\* A row as an earlier OAuth callback left it: the tokens of an installation
\* before the model starts, an hour and a tick left on them.
InstalledRow(id, location_id) ==
    [id |-> id, location_id |-> location_id, is_active |-> TRUE,
     access_token |-> id, refresh_token |-> id, expires_at |-> RefreshWindow + 1,
     company_name |-> 2, company_id |-> EmptyToken, user_id |-> 2, installed_at |-> 0]

\* The tables a burst of concurrent requests finds: no row at all, or a row
\* of the other location with its linked token, and with it possibly the row
\* of the requested location, with or without a linked token.
InitialTables ==
    {[rows |-> {}, tokens |-> {}],
     [rows |-> {InstalledRow(1, LocationSeq[2])}, tokens |-> {1}],
     [rows |-> {InstalledRow(1, LocationSeq[2]), InstalledRow(2, LocationSeq[1])},
      tokens |-> {1}],
     [rows |-> {InstalledRow(1, LocationSeq[2]), InstalledRow(2, LocationSeq[1])},
      tokens |-> {1, 2}]}

\* Concurrent requests of the account lifecycle; the token refresh operations
\* on the per-tenant table of Spec are not part of it.
LifecycleInit ==
    /\ \E t \in InitialTables :
          /\ ghl_integration = t.rows
          /\ whatsapp_tokens = t.tokens
    /\ ghl_webhook = {}
    /\ requests = [w \in Arrivals |-> NoRequest]
    /\ now = 0
    /\ issued = 0
    /\ db = [t \in Tenants |-> NoObj]
    /\ proc = [w \in Workers |-> Idle]

LifecycleNext ==
    \/ \E w \in Arrivals, body \in Bodies : WebhookReceived(w, body)
    \/ \E w \in Arrivals : WebhookCreatesIntegration(w)
    \/ \E w \in Arrivals : WebhookStoresEvent(w)
    \/ \E w \in Arrivals : ProcessWebhookDeactivates(w)
    \/ \E w \in Arrivals : ProcessWebhookDeletesTokens(w)
    \/ \E w \in Arrivals : ProcessWebhookActivates(w)
    \/ \E w \in Arrivals : ProcessWebhookMerges(w)
    \/ \E w \in Arrivals : ProcessWebhookMarks(w)
    \/ \E w \in Arrivals, q \in OAuthQueries, td \in Outcomes(issued), info \in OAuthLookups :
          OAuthCallback(w, q, td, info)
    \/ \E l \in RequestLocations : WhatsAppTokenPosted(l)
    \/ \E l \in RequestLocations : WhatsAppTokenDeleted(l)
    \/ \E w \in Arrivals, row \in ghl_integration : TokenRequested(w, row)
    \/ \E w \in Arrivals, row \in ghl_integration : GuardRequested(w, row)
    \/ \E w \in Arrivals : TokenExchangeReturns(w)
    \/ ClockAdvances

Lifecycle == LifecycleInit /\ [][LifecycleNext]_vars

\* Concurrent get-token and guard requests alone, each refresh in the steps
\* its worker takes: load and post, the provider's answer, the save.
RotationNext ==
    \/ \E w \in Arrivals, row \in ghl_integration : TokenRequested(w, row)
    \/ \E w \in Arrivals, row \in ghl_integration : GuardRequested(w, row)
    \/ \E w \in Arrivals : TokenResponseArrives(w)
    \/ \E w \in Arrivals : TokenSaved(w)
    \/ ClockAdvances

Rotation == LifecycleInit /\ [][RotationNext]_vars

\* Calls of every kind come to the guard.
GuardEntryNext ==
    \/ \E w \in Arrivals, call \in GuardCalls : GuardCalled(w, call)
    \/ \E w \in Arrivals : TokenExchangeReturns(w)
    \/ ClockAdvances

GuardEntry == LifecycleInit /\ [][GuardEntryNext]_vars

\* The end-to-end lifecycle of one tenant: an INSTALL webhook, a successful
\* OAuth callback, an UNINSTALL webhook and a get-token request, one after the
\* other, from empty tables.  The linked token is posted or deleted and the
\* clock advances at any time in between.
EndToEnd == <<"INSTALL", "oauth", "UNINSTALL", "get_valid">>

Steps == 1..Len(EndToEnd)

\* Step w begins when the steps before it are over.
InTurn(w) == \A j \in 1..(w - 1) : requests[j].pc = "done"

ScenarioInit ==
    /\ ghl_integration = {}
    /\ whatsapp_tokens = {}
    /\ ghl_webhook = {}
    /\ requests = [w \in Steps |-> NoRequest]
    /\ now = 0
    /\ issued = 0
    /\ db = [t \in Tenants |-> NoObj]
    /\ proc = [w \in Workers |-> Idle]

ScenarioWebhook(w, body) ==
    /\ InTurn(w)
    /\ body.kind = "object"
    /\ body.locationId \in RequestLocations
    /\ body.type = EndToEnd[w]
    /\ WebhookReceived(w, body)

ScenarioOAuth(w, q, td, info) ==
    /\ InTurn(w)
    /\ EndToEnd[w] = "oauth"
    /\ q.code
    /\ q.locationId \in RequestLocations
    /\ td.kind = "ok"
    /\ OAuthCallback(w, q, td, info)

\* The WhatsApp token is set while the app is installed.
ScenarioTokenPosted(l) ==
    /\ \A w \in Steps : EndToEnd[w] = "UNINSTALL" => requests[w].pc = "idle"
    /\ WhatsAppTokenPosted(l)

ScenarioGetValid(w, row) ==
    /\ InTurn(w)
    /\ EndToEnd[w] = "get_valid"
    /\ row.location_id \in RequestLocations
    /\ TokenRequested(w, row)

ScenarioNext ==
    \/ \E w \in Steps, body \in Bodies : ScenarioWebhook(w, body)
    \/ \E w \in Steps : WebhookCreatesIntegration(w)
    \/ \E w \in Steps : WebhookStoresEvent(w)
    \/ \E w \in Steps : ProcessWebhookDeactivates(w)
    \/ \E w \in Steps : ProcessWebhookDeletesTokens(w)
    \/ \E w \in Steps : ProcessWebhookActivates(w)
    \/ \E w \in Steps : ProcessWebhookMerges(w)
    \/ \E w \in Steps : ProcessWebhookMarks(w)
    \/ \E w \in Steps, q \in OAuthQueries, td \in Outcomes(issued), info \in OAuthInfo :
          ScenarioOAuth(w, q, td, info)
    \/ \E l \in RequestLocations : ScenarioTokenPosted(l)
    \/ \E l \in RequestLocations : WhatsAppTokenDeleted(l)
    \/ \E w \in Steps, row \in ghl_integration : ScenarioGetValid(w, row)
    \/ ClockAdvances

Scenario == ScenarioInit /\ [][ScenarioNext]_vars

\* The tables the health monitor is run on: tenant A's record is healthy,
\* due, expiring within a day, expired, or expired for seven days or more, and
\* was last saved now or more than thirty days ago; tenant B's is healthy.
MonitoredExpiry == {Days(0 - 7) - 1, Days(0 - 7), 0, RefreshWindow, Hours(24), Hours(24) + MaxTime + 1}

MonitoredRecords(t) ==
    {[id |-> t, is_active |-> a, access_token |-> InitialToken(t),
      refresh_token |-> InitialToken(t), expires_at |-> e, last_used_at |-> u]
        : a \in IF t = TenantSeq[1] THEN BOOLEAN ELSE {TRUE},
          e \in IF t = TenantSeq[1] THEN MonitoredExpiry ELSE {RefreshWindow + MaxTime + 1},
          u \in IF t = TenantSeq[1] THEN {0, Days(0 - 30) - 1} ELSE {0}}

MonitoringInit ==
    /\ db \in [Tenants -> UNION {MonitoredRecords(t) : t \in Tenants}]
    /\ \A t \in Tenants : db[t].id = t
    /\ now = 0
    /\ issued = 0
    /\ proc = [w \in Workers |-> Idle]
    /\ \E t \in InitialTables :
          /\ ghl_integration = t.rows
          /\ whatsapp_tokens = t.tokens
    /\ ghl_webhook = {}
    /\ requests = [w \in Arrivals |-> NoRequest]

MonitoringNext ==
    \/ \E w \in Workers : HealthSummary(w)
    \/ \E w \in Workers, hours \in ExpiringSoonHours : ExpiringSoon(w, hours)
    \/ \E w \in Workers : DailyHealthCheck(w)
    \/ \E t \in Tenants : deactivate_integrations(t)
    \/ Tick

Monitoring == MonitoringInit /\ [][MonitoringNext]_vars

\* The cron worker runs sweep after sweep.  Every sweep that can start does
\* (cron), every posted exchange is answered (the request has a timeout), and
\* an exchange for a tenant that is posted again and again is at some time
\* answered with a usable body.
CronWorker == WorkerSeq[1]

ExchangeSucceeds(t) ==
    \E td \in Outcomes(issued) :
        /\ td.kind = "ok"
        /\ proc[CronWorker].obj.id = t
        /\ ExchangeAnswered(CronWorker, td)

RepairNext ==
    \/ SweepTriggered(CronWorker)
    \/ ExchangeReturns(CronWorker)
    \/ \E t \in Tenants : deactivate_integrations(t)
    \/ Tick

Repair ==
    /\ Init
    /\ [][RepairNext]_vars
    /\ WF_vars(SweepTriggered(CronWorker))
    /\ WF_vars(ExchangeReturns(CronWorker))
    /\ \A t \in Tenants : SF_vars(ExchangeSucceeds(t))

-----------------------------------------------------------------------------
(* Properties *)

Calls == {proc[w] : w \in Workers}

\* The record was due when the call loaded it: needs_refresh or is_expired,
\* that is, no more than an hour was left on it.
WasDue(p) == p.remaining <= TicksPerHour

\* C1: get_valid never returns a token for a record with is_active=false:
\* whatever the record's expiry and refresh_token, the call ends with the
\* inactive-integration error, posts no token exchange and changes no row.
C1_InactiveNeverServed ==
    \A p \in Calls :
        (p.op = "get_valid" /\ ~p.loaded.is_active) =>
            /\ p.pc = "done"
            /\ p.status = "inactive"
            /\ p.token = EmptyToken
            /\ ~p.was_refreshed
            /\ p.exchanges = 0
            /\ p.touched = {}

C1_Witness ==
    \E p \in Calls :
        /\ p.op = "get_valid"
        /\ p.pc = "done"
        /\ ~p.loaded.is_active
        /\ p.loaded.refresh_token # EmptyToken
        /\ p.remaining <= 0

\* C2: a refresh that fails (transport error, non-2xx, unusable body) changes
\* nothing in the store: the rows a call has changed are rows whose exchange
\* the provider answered with a usable body.
C2_FailedRefreshWritesNothing ==
    \A p \in Calls :
        IF p.op = "sweep"
        THEN p.touched \subseteq
                {p.visited[j].id : j \in {k \in 1..Len(p.visited) : p.visited[k].outcome = "ok"}}
        ELSE p.answer # "ok" => p.touched = {}

C2_Witness ==
    \E p \in Calls :
        /\ p.op = "get_valid"
        /\ p.pc = "done"
        /\ p.answer = "bad_expires_in"
        /\ p.obj.access_token # p.loaded.access_token
        /\ db[p.obj.id] = p.loaded

\* C3: the guard forwards a call for a record that was due only after a
\* successful refresh, and then with the new token; when the refresh fails the
\* call is answered 401 and no token is attached.
C3_GuardNeverForwardsStale ==
    \A p \in Calls :
        (p.op = "guard" /\ p.pc = "done" /\ WasDue(p)) =>
            IF p.answer = "ok"
            THEN /\ p.status = "pass"
                 /\ p.token = p.obj.access_token
                 /\ p.token # p.loaded.access_token
            ELSE /\ p.status = "401"
                 /\ p.token = EmptyToken

C3_Witness ==
    \E p \in Calls :
        /\ p.op = "guard"
        /\ p.pc = "done"
        /\ WasDue(p)
        /\ p.answer = "error"
        /\ p.loaded.access_token # EmptyToken
        /\ p.status = "401"

\* C4: is_active gates every refresh and guard operation: a call that loaded a
\* record with is_active=false posts no token exchange for it, changes no row
\* and hands out no token.
C4_IsActiveGatesAll ==
    \A p \in Calls :
        (p.op \in {"get_valid", "guard", "manual"} /\ ~p.loaded.is_active) =>
            /\ p.exchanges = 0
            /\ p.touched = {}
            /\ p.token = EmptyToken

\* C5: for an active record get_valid returns (current token, false), with no
\* exchange and no store write, exactly when the record is not due; when it is
\* due it posts at most one exchange and returns (the new, saved token, true)
\* if the refresh succeeds and fails with the refresh-failed error otherwise.
C5_GetValidContract ==
    \A p \in Calls :
        (p.op = "get_valid" /\ p.loaded.is_active) =>
            /\ p.pc = "exchange" => (WasDue(p) /\ p.exchanges = 1)
            /\ (p.pc = "done" /\ ~WasDue(p)) =>
                  /\ p.status = "ok"
                  /\ p.token = p.loaded.access_token
                  /\ ~p.was_refreshed
                  /\ p.exchanges = 0
                  /\ p.touched = {}
            /\ (p.pc = "done" /\ WasDue(p)) =>
                  /\ p.exchanges <= 1
                  /\ IF p.answer = "ok"
                     THEN /\ p.status = "ok"
                          /\ p.was_refreshed
                          /\ p.exchanges = 1
                          /\ p.token = p.obj.access_token
                          /\ p.token # p.loaded.access_token
                          /\ p.touched = {p.obj.id}
                     ELSE /\ p.status = "refresh_failed"
                          /\ p.token = EmptyToken
                          /\ ~p.was_refreshed

C5_Witness ==
    \E p \in Calls :
        /\ p.op = "get_valid"
        /\ p.pc = "done"
        /\ p.loaded.is_active
        /\ WasDue(p)
        /\ p.answer = "ok"
        /\ p.was_refreshed
        /\ db[p.obj.id].access_token = p.token

\* C6: two refreshes of the same tenant never interleave: no two calls are at
\* the same time between reading a record's refresh_token and saving the
\* result of the exchange for it.
C6_RefreshesMutuallyExclusive ==
    \A w1, w2 \in Workers :
        (w1 # w2 /\ proc[w1].pc = "exchange" /\ proc[w2].pc = "exchange") =>
            proc[w1].obj.id # proc[w2].obj.id

\* C7: when two refreshes of the same tenant have both succeeded, the stored
\* access_token, refresh_token and expires_at are together those that one of
\* the two computed from its exchange response: no mix of the two.
C7_OneWinningTokenState ==
    \A w1, w2 \in Workers :
        (/\ w1 # w2
         /\ proc[w1].pc = "done" /\ proc[w1].answer = "ok"
         /\ proc[w2].pc = "done" /\ proc[w2].answer = "ok"
         /\ proc[w1].obj.id = proc[w2].obj.id) =>
            TokenState(db[proc[w1].obj.id]) \in
                {TokenState(proc[w1].obj), TokenState(proc[w2].obj)}

\* Both calls loaded the record before either saved, both answers rotated the
\* refresh token, and they differ in every field.
C7_Witness ==
    \E w1, w2 \in Workers :
        /\ w1 # w2
        /\ proc[w1].pc = "done" /\ proc[w1].answer = "ok"
        /\ proc[w2].pc = "done" /\ proc[w2].answer = "ok"
        /\ proc[w1].op \in {"get_valid", "guard"}
        /\ proc[w2].op \in {"manual", "guard"}
        /\ proc[w1].loaded = proc[w2].loaded
        /\ proc[w1].loaded.id \in Tenants
        /\ proc[w1].obj.refresh_token # proc[w2].obj.refresh_token
        /\ proc[w1].obj.expires_at # proc[w2].obj.expires_at
        /\ TokenState(db[proc[w1].obj.id]) = TokenState(proc[w1].obj)

\* The rows of the sweep's table that it came to, with the time it did.
ReachedAt(p, i) ==
    {p.visited[j].at : j \in {k \in 1..Len(p.visited) : p.visited[k].id = p.snap[i].id}}

AnswerFor(p, i) ==
    {p.visited[j].outcome : j \in {k \in 1..Len(p.visited) : p.visited[k].id = p.snap[i].id}}

\* No more than an hour was left on row i when the sweep came to it (or, for a
\* row it never came to, when it started).
DueWhenReached(p, i) ==
    \A at \in (IF ReachedAt(p, i) = {} THEN {p.started} ELSE ReachedAt(p, i)) :
        p.snap[i].expires_at - at <= TicksPerHour

C9_SweepNeverAborts ==
    \A w \in Workers :
        LET p == proc[w]
            rows == {i \in 1..Len(p.snap) :
                        p.snap[i].is_active /\ p.snap[i].refresh_token # EmptyToken}
            tried == {j \in 1..Len(p.visited) :
                        p.visited[j].outcome \notin {"skipped", "no_refresh_token"}}
        IN p.op = "sweep" =>
            /\ p.pc \in {"exchange", "done"}
            /\ p.pc = "exchange" => ENABLED ExchangeReturns(w)
            /\ \A j, k \in 1..Len(p.visited) : p.visited[j].id = p.visited[k].id => j = k
            /\ p.exchanges = Cardinality(tried)
            /\ p.pc = "done" =>
                  /\ p.status = "success"
                  /\ p.refreshed_count + p.failed_count = p.exchanges
                  /\ \A i \in rows :
                        /\ ReachedAt(p, i) # {}
                        /\ DueWhenReached(p, i) => AnswerFor(p, i) \subseteq OutcomeKinds

C9_Witness ==
    \E p \in Calls :
        /\ p.op = "sweep"
        /\ p.pc = "done"
        /\ Len(p.visited) = 2
        /\ p.visited[1].outcome \in {"error", "bad_expires_in"}
        /\ p.visited[2].outcome = "ok"

\* C10: the health summary puts every active record in exactly one class, so
\* expired + needs_refresh + healthy = total.
C10_HealthClassesPartition ==
    LET h == get_token_health_summary(db, now)
    IN h.expired_tokens + h.needs_refresh + h.healthy_tokens = h.total_integrations

\* C11: for every record and every time, needs_refresh is true iff
\* expires_at - now <= 1 hour, the exact 1-hour boundary included, and
\* is_expired is true iff now >= expires_at; a call that reads the flags of a
\* record it can refresh posts an exchange exactly when an hour or less is left.
C11_RefreshBoundary ==
    /\ \A t \in Tenants :
          /\ needs_refresh(db[t], now) <=> (db[t].expires_at - now <= TicksPerHour)
          /\ is_token_expired(db[t], now) <=> (now >= db[t].expires_at)
    /\ \A p \in Calls :
          (/\ p.op \in {"get_valid", "guard"}
           /\ p.loaded.is_active
           /\ p.loaded.refresh_token # EmptyToken) =>
              (p.exchanges = 1 <=> p.remaining <= TicksPerHour)

\* A record with exactly one hour left: due, not expired, and a call on it
\* posted its exchange.
C11_Witness ==
    \E p \in Calls :
        /\ p.op = "get_valid"
        /\ p.loaded.is_active
        /\ p.remaining = TicksPerHour
        /\ p.exchanges = 1
        /\ db[p.loaded.id].expires_at - now = TicksPerHour
        /\ needs_refresh(db[p.loaded.id], now)
        /\ ~is_token_expired(db[p.loaded.id], now)

Requests == {requests[w] : w \in DOMAIN requests}

\* The stored row with the primary key of obj, if there is one.
Stored(obj) == {x \in ghl_integration : x.id = obj.id}

\* C12: processing an UNINSTALL event for an existing record saves the record
\* the handler found with is_active=false and every other field as found,
\* deletes the tenant's linked secret token if there is one, and does not
\* delete the record.
C12_UninstallSoftDeactivates ==
    \A r \in Requests :
        (r.op = "webhook" /\ r.body.type = "UNINSTALL" /\ r.found # NoRow) =>
            /\ Stored(r.found) # {}
            /\ r.pc \in {"delete_tokens", "mark_processed", "done"} =>
                  r.saved = <<[r.found EXCEPT !.is_active = FALSE]>>
            /\ r.pc \in {"mark_processed", "done"} => r.tokens_left = 0
            /\ r.pc = "done" => r.status = 200

\* An active record with tokens, metadata and a linked token was uninstalled.
C12_Witness ==
    \E r \in Requests :
        /\ r.op = "webhook" /\ r.body.type = "UNINSTALL" /\ r.pc = "done"
        /\ r.found.is_active
        /\ r.found.access_token # EmptyToken
        /\ r.found.company_name # EmptyToken
        /\ r.deleted_count = 1
        /\ \E x \in Stored(r.found) : ~x.is_active /\ x.access_token = r.found.access_token
        /\ r.found.id \notin whatsapp_tokens


\* C13: an INSTALL event for a location without a record creates the record:
\* the created row is active, carries empty tokens and expires one hour after
\* the time of receipt, and the location has exactly one row from then on.
C13_InstallCreatesPlaceholder ==
    \A r \in Requests :
        (r.op = "webhook" /\ r.body.type = "INSTALL" /\ r.created) =>
            /\ r.found = NoRow
            /\ Cardinality(RowsAt(ghl_integration, r.body.locationId)) = 1
            /\ r.integration.location_id = r.body.locationId
            /\ r.integration.is_active
            /\ r.integration.access_token = EmptyToken
            /\ r.integration.refresh_token = EmptyToken
            /\ r.integration.expires_at = r.created_at + TicksPerHour

C13_Witness ==
    \E r \in Requests :
        /\ r.op = "webhook" /\ r.body.type = "INSTALL" /\ r.created
        /\ r.pc = "done" /\ r.status = 200
        /\ r.created_at > 0
        /\ RowsAt(ghl_integration, r.body.locationId) = {r.integration}
        /\ r.integration.is_active
        /\ r.integration.access_token = EmptyToken
        /\ r.integration.expires_at = r.created_at + TicksPerHour

\* The identifier an INSTALL payload leaves in a field: its own when it
\* carries one, the stored one otherwise.
Kept(stored, sent) == IF sent # EmptyToken THEN sent ELSE stored

\* C14: an INSTALL event for a location that has a record saves the record it
\* found with is_active = TRUE and then with the payload's non-empty company
\* name, company id and user id copied in; an empty identifier of the payload
\* never replaces a stored one, and access_token, refresh_token and expires_at
\* are saved as they were found.
C14_InstallReactivates ==
    \A r \in Requests :
        (r.op = "webhook" /\ r.body.type = "INSTALL" /\ r.found # NoRow) =>
            /\ ~r.created
            /\ r.pc \in {"merge", "mark_processed", "done"} =>
                   r.saved[1] = [r.found EXCEPT !.is_active = TRUE]
            /\ r.pc \in {"mark_processed", "done"} =>
                   /\ Len(r.saved) = 2
                   /\ r.saved[2] =
                        [r.found EXCEPT
                            !.is_active = TRUE,
                            !.company_name = Kept(r.found.company_name, r.body.companyName),
                            !.company_id = Kept(r.found.company_id, r.body.companyId),
                            !.user_id = Kept(r.found.user_id, r.body.userId)]
                   /\ r.found.user_id # EmptyToken => r.saved[2].user_id # EmptyToken
                   /\ r.saved[2].access_token = r.found.access_token
                   /\ r.saved[2].refresh_token = r.found.refresh_token
                   /\ r.saved[2].expires_at = r.found.expires_at
            /\ r.pc = "done" => r.status = 200

C14_Witness ==
    \E r \in Requests :
        /\ r.op = "webhook" /\ r.body.type = "INSTALL" /\ r.pc = "done"
        /\ r.found # NoRow /\ ~r.found.is_active
        /\ r.found.access_token # EmptyToken
        /\ r.found.user_id # EmptyToken /\ r.body.userId = EmptyToken
        /\ r.found.company_id = EmptyToken /\ r.body.companyId # EmptyToken
        /\ r.found.company_name # r.body.companyName /\ r.body.companyName # EmptyToken
        /\ Stored(r.found) = {r.saved[2]}
        /\ r.saved[2].is_active
        /\ r.saved[2].user_id = r.found.user_id
        /\ r.saved[2].company_id = r.body.companyId

\* C15: a webhook event of an unknown kind, for a location with or without a
\* record, creates no record and saves none, and once answered it is stored in
\* ghl_webhook.
C15_UnknownEventOnlyRecorded ==
    \A r \in Requests :
        (/\ r.op = "webhook" /\ r.body.kind = "object"
         /\ r.body.type = "unknown" /\ r.body.locationId # NoLocation) =>
            /\ ~r.created
            /\ r.saved = <<>>
            /\ r.pc = "done" =>
                   /\ r.status = 200
                   /\ \E ev \in ghl_webhook : ev.id = r.webhook /\ ev.event_type = "unknown"

Last(seq) == seq[Len(seq)]

\* C16: an UNINSTALL or INSTALL event applied again to the record as the same
\* event left it changes nothing: every row the second handler saves equals
\* the row it found, it creates none, leaves no linked token (deleting where
\* there is none included) and answers 200.
C16_ReapplyIsIdempotent ==
    \A i, j \in DOMAIN requests :
        LET first == requests[i]
            second == requests[j]
        IN (/\ i < j
            /\ first.op = "webhook" /\ second.op = "webhook"
            /\ first.body.type \in {"UNINSTALL", "INSTALL"}
            /\ second.body = first.body
            /\ first.pc = "done" /\ first.status = 200
            /\ second.pc = "done"
            /\ second.found = Last(first.saved)) =>
               /\ second.status = 200
               /\ ~second.created
               /\ \A k \in DOMAIN second.saved : second.saved[k] = second.found
               /\ second.body.type = "UNINSTALL" => second.tokens_left = 0

C16_Witness ==
    \E i, j \in DOMAIN requests :
        /\ i < j
        /\ requests[i].op = "webhook" /\ requests[j].op = "webhook"
        /\ requests[i].body.type = "UNINSTALL"
        /\ requests[j].body = requests[i].body
        /\ requests[i].pc = "done" /\ requests[j].pc = "done"
        /\ requests[i].found.is_active /\ requests[i].deleted_count = 1
        /\ requests[j].found = Last(requests[i].saved)
        /\ requests[j].deleted_count = 0 /\ requests[j].status = 200
        /\ Stored(requests[j].found) = {Last(requests[i].saved)}

\* The stored event of a request, if any.
EventOf(r) == {ev \in ghl_webhook : ev.id = r.webhook}

\* A webhook request the handler accepts: a JSON object that names a location.
Accepted(r) ==
    r.op = "webhook" /\ r.body.kind = "object" /\ r.body.locationId # NoLocation

\* C17: an accepted webhook event is stored, unprocessed, before the handler
\* creates or saves any record for it, stays unprocessed while the handler
\* works, is stored by the time the handler has answered, and is marked
\* processed only when the handler's transition is complete (for UNINSTALL:
\* the record saved inactive, no linked token left).
C17_EventStoredBeforeTransition ==
    \A r \in Requests :
        Accepted(r) =>
            /\ (r.created \/ r.saved # <<>>) => EventOf(r) # {}
            /\ r.pc = "done" => EventOf(r) # {}
            /\ r.pc \in {"deactivate", "delete_tokens", "activate", "merge", "mark_processed"} =>
                   \E ev \in EventOf(r) : ~ev.processed
            /\ \A ev \in EventOf(r) :
                   ev.processed =>
                       /\ r.pc = "done"
                       /\ r.body.type = "UNINSTALL" =>
                              ~Last(r.saved).is_active /\ r.tokens_left = 0

\* C18: a webhook request whose body is no JSON, or names no location, is
\* answered at once with a 4xx status, and the handler stores no event and
\* creates or saves no record.
C18_MalformedRejectedAsClientError ==
    \A r \in Requests :
        (r.op = "webhook" /\ ~Accepted(r)) =>
            /\ r.pc = "done"
            /\ r.status \in 400..499
            /\ r.webhook = 0 /\ EventOf(r) = {}
            /\ ~r.created
            /\ r.saved = <<>>

\* The requests of the scenario, by kind.
StepOf(kind) == requests[CHOOSE w \in Steps : EndToEnd[w] = kind]

\* C19: after an INSTALL webhook for a location without a record, a successful
\* OAuth callback for that location and an UNINSTALL webhook, the table holds
\* one row: it has the id of the row the INSTALL handler created, the tokens
\* the code exchange returned, expires_at = time of the callback + expires_in
\* (one hour if the exchange gave none), is inactive and has no linked
\* WhatsApp token; the get-token view then fails with the inactive error.
C19_InstallOAuthUninstall ==
    LET install == StepOf("INSTALL")
        oauth == StepOf("oauth")
        removal == StepOf("UNINSTALL")
        get_valid == StepOf("get_valid")
        td == oauth.token_data
    IN get_valid.pc = "done" =>
        /\ install.created /\ install.status = 200
        /\ oauth.status = 200 /\ ~oauth.created
        /\ removal.status = 200
        /\ \E row \in ghl_integration :
              /\ ghl_integration = {row}
              /\ row.id = install.integration.id
              /\ row.location_id = install.body.locationId
              /\ row.access_token = td.access_token
              /\ row.access_token # EmptyToken
              /\ row.refresh_token = (IF td.has_refresh_token THEN td.refresh_token ELSE EmptyToken)
              /\ row.expires_at = oauth.created_at
                    + (IF td.has_expires_in THEN td.expires_in ELSE DefaultExpiresIn)
              /\ ~row.is_active
              /\ row.id \notin whatsapp_tokens
              /\ get_valid.found = row
        /\ get_valid.call.status = "inactive"
        /\ get_valid.call.token = EmptyToken
        /\ get_valid.status = 500

C19_Witness ==
    /\ StepOf("get_valid").pc = "done"
    /\ StepOf("get_valid").call.status = "inactive"
    /\ StepOf("INSTALL").created
    /\ StepOf("oauth").created_at > StepOf("INSTALL").created_at
    /\ StepOf("oauth").token_data.has_expires_in
    /\ StepOf("UNINSTALL").deleted_count = 1
    /\ \E row \in ghl_integration :
          /\ ghl_integration = {row}
          /\ row.id = StepOf("INSTALL").integration.id
          /\ row.refresh_token # EmptyToken
          /\ row.expires_at = StepOf("oauth").created_at + StepOf("oauth").token_data.expires_in
          /\ ~row.is_active
          /\ row.id \notin whatsapp_tokens

\* C20: whatever webhook handlers and OAuth callbacks run at the same time, a
\* location never has more than one row, every accepted webhook request is
\* answered 200 with its event stored, and every OAuth callback whose code
\* exchange and lookups succeeded is answered 200.
C20_CreationByLocationAtomic ==
    /\ \A l \in LocationIds : Cardinality(RowsAt(ghl_integration, l)) <= 1
    /\ \A r \in Requests :
          /\ (Accepted(r) /\ r.pc = "done") => (r.status = 200 /\ EventOf(r) # {})
          /\ (r.op = "oauth" /\ r.token_data.kind = "ok" /\ r.lookup # "failed") =>
                r.status = 200

\* C21: a get-token request or a guard pass on a placeholder row (empty
\* access_token and refresh_token, as the webhook handler creates it and no
\* OAuth exchange has filled it) ends in an error (HTTP 500 or 401) at any
\* time: it returns or attaches no token and posts no exchange request.
C21_EmptyTokenNeverReleased ==
    \A r \in Requests :
        (/\ r.op \in {"get_valid", "guard"}
         /\ r.found.access_token = EmptyToken
         /\ r.found.refresh_token = EmptyToken) =>
            /\ r.pc = "done"
            /\ r.status \in {401, 500}
            /\ r.call.status \in {"refresh_failed", "401", "inactive"}
            /\ r.call.token = EmptyToken
            /\ r.call.exchanges = 0

C21_Witness ==
    \E i, j \in DOMAIN requests :
        /\ requests[i].op = "webhook" /\ requests[i].created
        /\ requests[j].op = "guard" /\ requests[j].pc = "done"
        /\ requests[j].found.id = requests[i].integration.id
        /\ requests[j].found.is_active
        /\ requests[j].found.access_token = EmptyToken
        /\ requests[j].found.refresh_token = EmptyToken
        /\ requests[j].found.expires_at - requests[j].call.remaining > requests[i].created_at
        /\ requests[j].status = 401

\* C22: a record that is due and has an empty refresh_token makes every
\* refresh path that meets it fail without a request to the provider:
\* get_valid on an active record fails, the guard answers 401, the manual
\* refresh answers 400, and a sweep counts every such active record of its
\* table in failed_count.
C22_NoRefreshTokenSurfaced ==
    \A p \in Calls :
        /\ (/\ p.op \in {"get_valid", "guard", "manual"}
            /\ p.loaded.refresh_token = EmptyToken
            /\ WasDue(p)
            /\ p.op = "get_valid" => p.loaded.is_active) =>
               /\ p.pc = "done"
               /\ p.exchanges = 0
               /\ p.touched = {}
               /\ p.op = "get_valid" => p.status = "refresh_failed"
               /\ p.op = "guard" => p.status = "401"
               /\ p.op = "manual" => p.status = "400"
        /\ (p.op = "sweep" /\ p.pc = "done") =>
               LET unrecoverable == {i \in 1..Len(p.snap) :
                                        /\ p.snap[i].is_active
                                        /\ p.snap[i].refresh_token = EmptyToken
                                        /\ p.snap[i].expires_at - p.started <= TicksPerHour}
               IN /\ p.failed_count >= Cardinality(unrecoverable)
                  /\ \A i \in unrecoverable : ReachedAt(p, i) # {}

\* The time at which the call loaded its record.
LoadedAt(p) == p.loaded.expires_at - p.remaining

\* C23: every guard pass that attaches a token, refreshed or not, leaves the
\* record's stored last_used_at no earlier than the time of the access.
C23_GuardPassStampsLastUsed ==
    \A p \in Calls :
        (p.op = "guard" /\ p.pc = "done" /\ p.status = "pass") =>
            db[p.loaded.id].last_used_at >= LoadedAt(p)

HealthOps == {"health_summary", "expiring_soon", "daily_health"}

\* C24: a step of the health monitor (the summary, the expiring-within query,
\* the daily health report with its 7-day and 30-day classes) changes no row
\* of the credential table, no linked WhatsApp token and no webhook event.
C24_HealthMonitorOnlyReads ==
    [][(\E w \in Workers : proc[w].pc = "idle" /\ proc'[w].op \in HealthOps) =>
           UNCHANGED <<db, ghl_integration, whatsapp_tokens, ghl_webhook>>]_vars

C24_Witness ==
    \E p \in Calls :
        /\ p.op = "daily_health" /\ p.pc = "done"
        /\ p.started > 0
        /\ p.report.severely_expired # {}
        /\ p.report.unused # {}
        /\ p.report.health.expired_tokens > 0
        /\ p.snap = AllRows(db)
        /\ whatsapp_tokens # {}

\* C25: the step in which refresh_single_token handles a usable answer writes
\* the record once, with access_token from the answer, refresh_token from the
\* answer or, when the answer has none, the one the call held, and
\* expires_at = now + expires_in, one hour when the answer has no expires_in;
\* no other record changes in that step.
C25_SuccessfulRefreshPersists ==
    [][\A w \in Workers :
          (/\ proc[w].pc = "exchange" /\ proc[w].op \in ServiceOps
           /\ proc'[w] # proc[w] /\ proc'[w].answer = "ok") =>
              LET id == proc[w].obj.id IN
              /\ \E td \in Outcomes(issued) :
                    /\ td.kind = "ok"
                    /\ TokenState(db'[id]) =
                          <<td.access_token,
                            IF td.has_refresh_token THEN td.refresh_token
                            ELSE proc[w].obj.refresh_token,
                            now + (IF td.has_expires_in THEN td.expires_in ELSE TicksPerHour)>>
              /\ db'[id].access_token # EmptyToken
              /\ db'[id].refresh_token # EmptyToken
              /\ \A t \in Tenants \ {id} : db'[t] = db[t]]_vars

\* The answer had no refresh_token and no expires_in.
C25_Witness ==
    \E p \in Calls :
        /\ p.op \in {"get_valid", "guard"} /\ p.pc = "done" /\ p.answer = "ok"
        /\ db[p.loaded.id] = p.obj
        /\ p.obj.access_token # p.loaded.access_token
        /\ p.obj.refresh_token = p.loaded.refresh_token
        /\ p.obj.last_used_at > 0
        /\ p.obj.expires_at = p.obj.last_used_at + TicksPerHour

\* The access tokens of the model.
AccessTokens == 1..ProviderToken(MaxExchanges)

\* The record can be repaired by a refresh.
Repairable(obj) == obj.is_active /\ obj.refresh_token # EmptyToken

\* C26: with sweeps triggered again and again and a provider that at some time
\* answers a tenant's exchange with a usable body, a record that is active,
\* has a refresh_token and is due or expired gets a new access_token and is
\* then not expired, unless it stops being active first (or the provider has
\* issued every token pair of the model).
C26_EventuallyRepaired ==
    \A t \in Tenants, tok \in AccessTokens :
        (/\ Repairable(db[t])
         /\ db[t].expires_at - now <= TicksPerHour
         /\ db[t].access_token = tok)
            ~> (\/ ~Repairable(db[t])
                \/ db[t].access_token # tok /\ now < db[t].expires_at
                \/ issued = MaxExchanges)

C26_Witness ==
    /\ proc[CronWorker].op = "sweep" /\ proc[CronWorker].pc = "done"
    /\ proc[CronWorker].refreshed_count = 1
    /\ issued < MaxExchanges
    /\ \E t \in Tenants :
          /\ Repairable(db[t])
          /\ db[t].access_token = ProviderToken(issued)
          /\ db[t].last_used_at > 0
          /\ now < db[t].expires_at
          /\ \E i \in 1..Len(proc[CronWorker].snap) :
                /\ proc[CronWorker].snap[i].id = t
                /\ proc[CronWorker].snap[i].expires_at <= proc[CronWorker].started

\* C27: an OAuth callback without a code is answered 400, one with a code and
\* no locationId is answered with the success page; the step of either posts
\* no code exchange and creates or changes no row.
C27_OAuthEarlyAnswers ==
    [][\A w \in DOMAIN requests :
          (/\ requests[w].pc = "idle" /\ requests'[w].op = "oauth"
           /\ \/ requests'[w].body.kind = "no_code"
              \/ requests'[w].body.locationId = NoLocation) =>
              /\ requests'[w].pc = "done"
              /\ requests'[w].status =
                    (IF requests'[w].body.kind = "no_code" THEN 400 ELSE 200)
              /\ requests'[w].token_data = NoTokenData
              /\ ~requests'[w].created /\ requests'[w].saved = <<>>
              /\ UNCHANGED <<ghl_integration, issued, ghl_webhook, whatsapp_tokens>>]_vars

C27_Witness ==
    \E i, j \in DOMAIN requests :
        /\ requests[i].op = "oauth" /\ requests[i].body.kind = "no_code"
        /\ requests[i].body.locationId # NoLocation /\ requests[i].status = 400
        /\ requests[j].op = "oauth" /\ requests[j].body.kind = "code"
        /\ requests[j].body.locationId = NoLocation /\ requests[j].status = 200
        /\ ghl_integration = {}
        /\ issued = 0

\* C28: once an UNINSTALL webhook has saved its row and no INSTALL webhook or
\* OAuth callback is among the requests, the row is inactive, whatever token
\* refresh of a get-token or guard request loaded it earlier and saves later.
C28_UninstallSurvivesRefresh ==
    \A i \in DOMAIN requests :
        (/\ requests[i].op = "webhook" /\ requests[i].body.type = "UNINSTALL"
         /\ requests[i].saved # <<>>
         /\ \A j \in DOMAIN requests :
               \/ requests[j].op \in {"none", "get_valid", "guard"}
               \/ requests[j].op = "webhook" /\ requests[j].body.type = "UNINSTALL") =>
            \A row \in ghl_integration :
                row.id = requests[i].integration.id => ~row.is_active

\* C29: a save of a webhook handler leaves the token pair and expiry of the
\* stored row as they were: what a refresh or an OAuth callback persisted
\* after the handler loaded the row is not overwritten.
C29_WebhookSaveKeepsTokens ==
    [][\A w \in DOMAIN requests :
          (/\ requests[w].op = "webhook"
           /\ Len(requests'[w].saved) > Len(requests[w].saved)) =>
              \A row \in ghl_integration :
                  row.id = requests'[w].integration.id =>
                      \E kept \in ghl_integration' :
                          /\ kept.id = row.id
                          /\ TokenState(kept) = TokenState(row)]_vars

\* The refresh requests for a row, and the refresh tokens the provider issued
\* in its answers to them.
RefreshesOf(row) ==
    {i \in DOMAIN requests :
        requests[i].op \in {"get_valid", "guard"} /\ requests[i].integration.id = row.id}

RotatedTo(row) ==
    {requests[i].token_data.refresh_token :
        i \in {j \in RefreshesOf(row) : requests[j].token_data.kind = "ok"}}

\* C30: when every refresh of a row has finished and each answer of the
\* provider carried a new refresh token, the row stores the refresh token
\* issued last, none of the earlier ones.
C30_LatestRefreshTokenStored ==
    \A row \in ghl_integration :
        (/\ RotatedTo(row) # {}
         /\ \A i \in RefreshesOf(row) :
               /\ requests[i].pc = "done"
               /\ requests[i].token_data.kind \in {"none", "error", "ok"}
               /\ requests[i].token_data.kind = "ok" =>
                      requests[i].token_data.has_refresh_token) =>
            \A issued_earlier \in RotatedTo(row) : row.refresh_token >= issued_earlier

\* C31: a row with is_active = false has no linked WhatsApp token, in every
\* state but the ones in the middle of an UNINSTALL, between its save of the
\* row and its delete of the linked tokens.
C31_InactiveHasNoLinkedToken ==
    \A row \in ghl_integration :
        (/\ ~row.is_active
         /\ \A i \in DOMAIN requests :
               ~(requests[i].pc = "delete_tokens" /\ requests[i].integration.id = row.id)) =>
            row.id \notin whatsapp_tokens

\* C32: right after the step in which refresh_single_token handled a usable
\* answer and saved, the stored record is not due for refresh, whatever
\* expires_in the answer carried or left out.
C32_RefreshedNotDue ==
    [][\A w \in Workers :
          (/\ proc[w].pc = "exchange" /\ proc[w].op \in ServiceOps
           /\ proc'[w] # proc[w] /\ proc'[w].answer = "ok") =>
              ~needs_refresh(db'[proc[w].obj.id], now')]_vars

\* C33: the step of a successful OAuth callback leaves is_active of the
\* location's row as it was (an inactive row gets the new tokens and stays
\* inactive) and creates a missing row active; a get-token request for an
\* inactive row is answered "inactive" with no exchange.
C33_UpsertKeepsIsActive ==
    [][\A w \in DOMAIN requests :
          /\ (/\ requests[w].pc = "idle" /\ requests'[w].op = "oauth"
              /\ requests'[w].status = 200
              /\ requests'[w].body.locationId # NoLocation) =>
                 LET old == RowsAt(ghl_integration, requests'[w].body.locationId)
                     new == RowsAt(ghl_integration', requests'[w].body.locationId)
                 IN /\ Cardinality(new) = 1
                    /\ \A row \in new :
                          /\ row.access_token = requests'[w].token_data.access_token
                          /\ \A x \in old : row.id = x.id /\ row.is_active = x.is_active
                          /\ old = {} => row.is_active
          /\ (/\ requests[w].pc = "idle" /\ requests'[w].op = "get_valid"
              /\ ~requests'[w].found.is_active) =>
                 /\ requests'[w].pc = "done"
                 /\ requests'[w].call.status = "inactive"
                 /\ requests'[w].status = 500
                 /\ UNCHANGED <<ghl_integration, issued>>]_vars

\* An UNINSTALL was processed, and a later callback replaced the tokens of the
\* inactive row.
C33_Witness ==
    \E i, j \in DOMAIN requests :
        /\ requests[i].op = "webhook" /\ requests[i].body.type = "UNINSTALL"
        /\ requests[i].pc = "done" /\ requests[i].saved # <<>>
        /\ requests[j].op = "oauth" /\ requests[j].status = 200
        /\ requests[j].body.locationId # NoLocation
        /\ ~requests[j].found.is_active
        /\ requests[j].found.id = requests[i].integration.id
        /\ requests[j].integration \in ghl_integration
        /\ ~requests[j].integration.is_active
        /\ requests[j].integration.access_token # requests[j].found.access_token

\* C34: the step of an OAuth callback whose code exchange or whose user or
\* location lookup failed answers 500 and leaves every row as it was; no row
\* is created.
C34_CallbackAllOrNothing ==
    [][\A w \in DOMAIN requests :
          (/\ requests[w].pc = "idle" /\ requests'[w].op = "oauth"
           /\ oauth_callback_begin([code |-> requests'[w].body.kind = "code",
                                    locationId |-> requests'[w].body.locationId]) = 0
           /\ \/ requests'[w].token_data.kind # "ok"
              \/ requests'[w].lookup = "failed") =>
              /\ requests'[w].pc = "done"
              /\ requests'[w].status = 500
              /\ ~requests'[w].created /\ requests'[w].saved = <<>>
              /\ ghl_integration' = ghl_integration]_vars

\* One callback failed in the code exchange, the other in a lookup after the
\* provider had issued its tokens; a row of the location existed.
C34_Witness ==
    \E i, j \in DOMAIN requests :
        /\ requests[i].op = "oauth" /\ requests[i].status = 500
        /\ requests[i].token_data.kind = "error"
        /\ requests[j].op = "oauth" /\ requests[j].status = 500
        /\ requests[j].token_data.kind = "ok" /\ requests[j].lookup = "failed"
        /\ RowsAt(ghl_integration, requests[j].body.locationId) # {}
        /\ issued = 1

\* C35: no step changes the id or installed_at of a stored row: the row of a
\* location keeps both through every save of a refresh, a webhook handler and
\* an OAuth callback, and stays the only row of its location.
C35_IdAndInstalledAtImmutable ==
    [][\A row \in ghl_integration :
          \E kept \in ghl_integration' :
              /\ kept.id = row.id
              /\ kept.installed_at = row.installed_at
              /\ \A other \in ghl_integration' :
                    other.location_id = row.location_id => other = kept]_vars

\* A row an INSTALL webhook created was later updated by an OAuth callback.
C35_Witness ==
    \E i, j \in DOMAIN requests :
        /\ requests[i].op = "webhook" /\ requests[i].created
        /\ requests[j].op = "oauth" /\ requests[j].status = 200 /\ ~requests[j].created
        /\ requests[j].found.id = requests[i].integration.id
        /\ requests[j].created_at > requests[j].found.installed_at
        /\ requests[j].integration \in ghl_integration
        /\ requests[j].integration.id = requests[j].found.id
        /\ requests[j].integration.installed_at = requests[j].found.installed_at
        /\ requests[j].integration.access_token # requests[j].found.access_token

\* The rows of the locations other than l, and the linked tokens of those rows.
OtherRows(table, l) == {r \in table : r.location_id # l}

OtherTokens(table, tokens, l) == tokens \cap {r.id : r \in OtherRows(table, l)}

\* C36: a step of a request for one location (a webhook event, a get-token or
\* guard request and the refresh it makes, an OAuth callback) changes no row
\* of another location and no token linked to such a row.
C36_TenantsIndependent ==
    [][\A w \in DOMAIN requests :
          requests'[w] # requests[w] =>
              LET l == requests'[w].body.locationId IN
              /\ OtherRows(ghl_integration', l) = OtherRows(ghl_integration, l)
              /\ OtherTokens(ghl_integration, whatsapp_tokens', l) =
                     OtherTokens(ghl_integration, whatsapp_tokens, l)]_vars

\* Location L1 was uninstalled, its linked token deleted, and a refresh of a
\* guard request saved its row; the row and the token of L2 are as they were.
C36_Witness ==
    \E i, j \in DOMAIN requests :
        /\ requests[i].op = "webhook" /\ requests[i].body.type = "UNINSTALL"
        /\ requests[i].pc = "done" /\ requests[i].deleted_count = 1
        /\ requests[j].op = "guard" /\ requests[j].saved # <<>>
        /\ requests[j].body.locationId = requests[i].body.locationId
        /\ \E other \in OtherRows(ghl_integration, requests[i].body.locationId) :
              /\ other = InstalledRow(other.id, other.location_id)
              /\ other.id \in whatsapp_tokens

\* The call is outside the API namespace, carries no integration id, or
\* carries the id of no stored row.
NamesNoRecord(call, table) ==
    \/ ~call.in_namespace
    \/ get_integration_id_from_request(call).kind \in {"none", "raised"}
    \/ RowsNamed(table, get_integration_id_from_request(call)) = {}

\* C37: the guard's step on a call outside the namespace, without an
\* integration id or with the id of no stored row passes the call on to the
\* view with no token attached, no exchange posted and no table changed.
C37_GuardPassesThrough ==
    [][\A w \in DOMAIN requests :
          (/\ requests[w].pc = "idle" /\ requests'[w].op = "guard"
           /\ requests'[w].guard_call \in GuardCalls
           /\ NamesNoRecord(requests'[w].guard_call, ghl_integration)) =>
              /\ requests'[w].pc = "done"
              /\ requests'[w].status = 200
              /\ requests'[w].call = Idle
              /\ UNCHANGED <<ghl_integration, issued, ghl_webhook, whatsapp_tokens>>]_vars

====
